---- MODULE Spec2Model ----
(***************************************************************************)
(* DoIP gateway server: the per-connection state machine                   *)
(* (DoIPDefaultConnection / DoIPConnection), the timer manager it drives    *)
(* and the server model callbacks it invokes.                               *)
(*                                                                          *)
(* One action handles one event of a connection to completion: a message    *)
(* passed to handleMessage2, the expiry of a timer, a response of the       *)
(* downstream provider, or a closeConnection call.  An optional value       *)
(* (std::optional) is a sequence of length 0 or 1.                          *)
(*                                                                          *)
(* The server (DoIPServer) is modelled by its threads: each step of a       *)
(* thread runs it from one blocking call or loop head to the next.          *)
(***************************************************************************)
EXTENDS Integers, Sequences, FiniteSets, TLC

\* ------------------------------------------------------------------ bounds

\* number of connection slots of the model
NumConns == 2
\* m_aliveCheckRetryCount, the configured number of alive check attempts
AliveCheckRetryCount == 2
\* every armed timer expires after this many ticks of the clock
TimerTicks == 2
\* counters of close operations and notifications stop counting here
MaxCount == 3
\* the number of clients that connect to the server
MaxAccept == 1
\* m_config.announceCount, the configured number of vehicle announcements
AnnounceCount == 2
\* the size of m_receiveBuf, the longest payload a connection can take
ReceiveBufSize == 2
\* the messages sent to and injected into a mock transport between two clears
MaxQueue == 2

\* the items pushed to a ThreadSafeQueue and the threads that take from it
MaxItems == 3
NumConsumers == 2

\* --------------------------------------------------------------- constants

ZERO_ADDRESS == 0
\* m_serverModel->serverAddress (0x0028)
ServerAddress == 40
\* timeoutDurationUser of STATE_DESCRIPTORS[WaitDownstreamResponse], ms
DownstreamTimeoutUser == 2000
\* the durations of the connection timers, ms
InitialInactivityTimeout == 2000
GeneralInactivityTimeout == 300000
AliveCheckTimeout == 500
DownstreamResponseTimeout == 2000
\* timeoutDurationUser of a StateDescriptor that names none
DefaultTimeoutUser == 0

Conns == 1..NumConns

\* client logical addresses (0x0E80, 0x0E81)
ClientAddrs == {3712, 3713}

States == {"SocketInitialized", "WaitRoutingActivation", "RoutingActivated",
           "WaitAliveCheckResponse", "WaitDownstreamResponse", "Finalize", "Closed"}

ConnectionTimers == {"InitialInactivity", "GeneralInactivity", "AliveCheck",
                     "DownstreamResponse", "UserDefined"}

CloseReasons == {"ApplicationRequest", "SocketError", "InvalidMessage",
                 "InitialInactivityTimeout", "AliveCheckTimeout"}

\* DoIPNegativeDiagnosticAck codes a server model returns from onDiagnosticMessage
ModelNacks == {"UnknownTargetAddress", "TargetUnreachable"}

\* DoIPDiagnosticAck: std::optional<DoIPNegativeDiagnosticAck>
DiagnosticAcks == {<<>>} \cup {<<n>> : n \in ModelNacks}

DownstreamResults == {"Pending", "Handled", "Error", "Timeout"}

\* payloads a downstream provider answers with
UdsPayloads == {<<98>>, <<127, 34>>}

\* ---------------------------------------------------------------- messages

NoMsg == [type |-> "None", sa |-> <<>>]

\* the messages a client sends: payload type and the result of getSourceAddress()
Messages ==
    {[type |-> "RoutingActivationRequest", sa |-> s] : s \in {<<>>} \cup {<<a>> : a \in ClientAddrs}}
    \cup {[type |-> "DiagnosticMessage", sa |-> s] : s \in {<<>>} \cup {<<a>> : a \in ClientAddrs}}
    \cup {[type |-> "AliveCheckResponse", sa |-> <<a>>] : a \in ClientAddrs}
    \cup {[type |-> "VehicleIdentificationRequest", sa |-> <<>>]}

\* message builders: the fields a message is built from
makeRoutingActivationResponse(client, server, code) ==
    [type |-> "RoutingActivationResponse", sa |-> client, ta |-> server,
     code |-> code, data |-> <<0, 0, 0, 0>>]

makeAliveCheckRequest ==
    [type |-> "AliveCheckRequest", sa |-> ZERO_ADDRESS, ta |-> ZERO_ADDRESS,
     code |-> "None", data |-> <<>>]

makeDiagnosticNegativeResponse(sa, ta, nack, data) ==
    [type |-> "DiagnosticNegativeAck", sa |-> sa, ta |-> ta, code |-> nack, data |-> data]

makeDiagnosticPositiveResponse(sa, ta, data) ==
    [type |-> "DiagnosticPositiveAck", sa |-> sa, ta |-> ta, code |-> "None", data |-> data]

makeDiagnosticMessage(sa, ta, data) ==
    [type |-> "DiagnosticMessage", sa |-> sa, ta |-> ta, code |-> "None", data |-> data]

\* ------------------------------------------------------------------- state

VARIABLES
    conns,               \* the connections that have been constructed
    m_state,             \* m_state->state of each connection
    m_logicalAddress,    \* the recorded client address
    m_aliveCheckRetry,
    m_isClosing,         \* DoIPConnection's one-shot flag
    m_isOpen,
    m_closeReason,
    tpActive,            \* m_isActive of the connection transport
    tpCloses,            \* closes of the descriptor by the transport
    rawCloses,           \* close(m_tcpSocket) calls of DoIPConnection
    notified,            \* the reasons onCloseConnection was invoked with
    raised,              \* an exception left handleMessage2
    sink,                \* the provider holds a response sink it has not invoked
    hasDownstream,       \* the server model has an onDownstreamRequest handler
    tmOf,                \* the timer manager each connection was handed
    timers,              \* the armed timers of each timer manager
    ev,                  \* the event handled last, with the state it found
    out,                 \* the messages sent while handling it
    calls,               \* the server model callbacks invoked while handling it,
                         \* and the calls their handlers made into the connection
    quiet,               \* the ticks since each connection last handled, in
                         \* RoutingActivated, a message of its client
    m_udpRunning,        \* the stop flags of the server
    m_tcpRunning,
    m_tcpSock,           \* the listening socket is open
    m_udpLock,           \* the UDP socket is open
    m_workerThreads,     \* the threads stop() joins
    thread,              \* where each server thread is
    handler,             \* where the handler thread of each connection is
    stopAt,              \* where the caller of stop() is
    announced,           \* the vehicle announcements sent
    received,            \* the last receiveTcpMessage: the payload length its header
                         \* declared, the bytes copied to m_receiveBuf, its result
    m_isActive,          \* the members of a MockConnectionTransport
    m_blocking,
    m_sentQueue,
    m_receiveQueue,
    receiver,            \* where the thread that calls receiveMessage is
    mockCall,            \* the call of the transport that returned last
    mockLog,             \* the messages sent, popped, injected and received
                         \* since the queues were last cleared
    datagram,            \* the UDP datagram received last and the responses to it
    tcpTransport,        \* a TcpConnectionTransport and the descriptor it owns
    tcpCall,             \* the call of it that returned last
    tcpTraffic,          \* the messages it has sent and received
    tsq,                 \* a ThreadSafeQueue
    consumer,            \* where each thread that takes items from it is
    tsqLog               \* the items it accepted, the items it delivered and the
                         \* call that returned last

connVars == <<conns, m_state, m_logicalAddress, m_aliveCheckRetry, m_isClosing, m_isOpen,
              m_closeReason, tpActive, tpCloses, rawCloses, notified, raised, sink,
              hasDownstream, tmOf, timers, ev, out, calls, quiet>>

serverVars == <<m_udpRunning, m_tcpRunning, m_tcpSock, m_udpLock, m_workerThreads,
                thread, handler, stopAt, announced, received, datagram>>

mockVars == <<m_isActive, m_blocking, m_sentQueue, m_receiveQueue, receiver, mockCall,
              mockLog>>

tcpVars == <<tcpTransport, tcpCall, tcpTraffic>>

queueVars == <<tsq, consumer, tsqLog>>

\* the parts of the library that are also exercised on their own
partVars == <<mockVars, tcpVars, queueVars>>

vars == <<connVars, serverVars, partVars>>

Min(a, b) == IF a < b THEN a ELSE b

\* the state of connection c and of its timer manager, as one record the
\* member functions below transform
World(c) ==
    [m_state |-> m_state[c], m_logicalAddress |-> m_logicalAddress[c],
     m_aliveCheckRetry |-> m_aliveCheckRetry[c], m_isClosing |-> m_isClosing[c],
     m_isOpen |-> m_isOpen[c], m_closeReason |-> m_closeReason[c],
     tpActive |-> tpActive[c], tpCloses |-> tpCloses[c], rawCloses |-> rawCloses[c],
     notified |-> notified[c], raised |-> raised[c], sink |-> sink[c],
     timers |-> timers[tmOf[c]], out |-> <<>>, calls |-> <<>>]

\* ------------------------------------------------------------ timer manager

stopAll(w) == [w EXCEPT !.timers = {}]

addTimer(w, c, id) ==
    [w EXCEPT !.timers = {t \in @ : t.id # id}
                         \cup {[id |-> id, owner |-> c, left |-> TimerTicks]}]

restartTimer(w, id) ==
    [w EXCEPT !.timers = {IF t.id = id THEN [t EXCEPT !.left = TimerTicks] ELSE t : t \in @}]

\* ------------------------------------------------------- state descriptors

DescTimer(s) ==
    CASE s = "WaitRoutingActivation" -> "InitialInactivity"
      [] s = "RoutingActivated" -> "GeneralInactivity"
      [] s = "WaitAliveCheckResponse" -> "AliveCheck"
      [] s = "WaitDownstreamResponse" -> "UserDefined"
      [] OTHER -> "UserDefined"

DescStateAfterTimeout(s) ==
    CASE s = "SocketInitialized" -> "WaitRoutingActivation"
      [] s = "Closed" -> "Closed"
      [] s = "Finalize" -> "Closed"
      [] OTHER -> "Finalize"

DescTimeoutDurationUser(s) ==
    IF s = "WaitDownstreamResponse" THEN DownstreamTimeoutUser ELSE DefaultTimeoutUser

getTimerDuration(s) ==
    CASE DescTimer(s) = "AliveCheck" -> AliveCheckTimeout
      [] DescTimer(s) = "InitialInactivity" -> InitialInactivityTimeout
      [] DescTimer(s) = "GeneralInactivity" -> GeneralInactivityTimeout
      [] DescTimer(s) = "DownstreamResponse" -> DownstreamResponseTimeout
      [] DescTimer(s) = "UserDefined" -> DescTimeoutDurationUser(s)

enterStateHandler(w) ==
    CASE w.m_state = "RoutingActivated" -> [w EXCEPT !.m_aliveCheckRetry = 0]
      [] w.m_state = "WaitAliveCheckResponse" ->
            [w EXCEPT !.m_aliveCheckRetry = @ + 1]
      [] OTHER -> w

RECURSIVE transitionTo(_, _, _)
RECURSIVE startStateTimer(_, _)

\* mutant: the timers that are armed are left running
startStateTimer_NoStopAll(w, c) ==
    IF getTimerDuration(w.m_state) = 0
    THEN transitionTo(w, c, DescStateAfterTimeout(w.m_state))
    ELSE addTimer(w, c, DescTimer(w.m_state))

startStateTimer(w, c) ==
    LET w1 == stopAll(w)
    IN  IF getTimerDuration(w1.m_state) = 0
        THEN transitionTo(w1, c, DescStateAfterTimeout(w1.m_state))
        ELSE addTimer(w1, c, DescTimer(w1.m_state))

transitionTo(w, c, newState) ==
    IF w.m_state = newState
    THEN w
    ELSE enterStateHandler(startStateTimer([w EXCEPT !.m_state = newState], c))

restartStateTimer(w) == restartTimer(w, DescTimer(w.m_state))

\* ------------------------------------------------------------------ sending

\* DoIPConnection::sendProtocolMessage: the message is written to the socket
sendProtocolMessage(w, msg) == [w EXCEPT !.out = Append(@, msg)]

\* a call is logged with what the connection looks like when it is made
called(w, fn, ack, res) ==
    [w EXCEPT !.calls = Append(@, [fn |-> fn, ack |-> ack, res |-> res,
                                   st |-> w.m_state, timers |-> w.timers,
                                   tpActive |-> w.tpActive, isOpen |-> w.m_isOpen,
                                   rawCloses |-> w.rawCloses])]

sendRoutingActivationResponse(w, source_address, response_code) ==
    sendProtocolMessage(w,
        makeRoutingActivationResponse(source_address, ServerAddress, response_code))

sendAliveCheckRequest(w) == sendProtocolMessage(w, makeAliveCheckRequest)

notifyDiagnosticAckSent(w, ack) == called(w, "onDiagnosticNotification", ack, "None")

sendDiagnosticMessageResponse(w, sourceAddress, ack) ==
    LET message == IF Len(ack) = 1
                   THEN makeDiagnosticNegativeResponse(sourceAddress, ServerAddress, ack[1], <<>>)
                   ELSE makeDiagnosticPositiveResponse(sourceAddress, ServerAddress, <<>>)
    IN  notifyDiagnosticAckSent(sendProtocolMessage(w, message), ack)

\* the server model's onDiagnosticMessage returns env.ack
notifyDiagnosticMessage(w, env) == called(w, "onDiagnosticMessage", env.ack, "None")

\* ------------------------------------------------------ downstream provider

\* mutant: the response is passed on but the state is not left
receiveDownstreamResponse_NoTransition(w, c, response, result) ==
    IF result = "Handled"
    THEN sendProtocolMessage(w, makeDiagnosticMessage(ServerAddress, w.m_logicalAddress, response))
    ELSE sendProtocolMessage(w,
             makeDiagnosticNegativeResponse(ServerAddress, w.m_logicalAddress,
                                            "TargetUnreachable", <<>>))

receiveDownstreamResponse(w, c, response, result) ==
    LET sa == ServerAddress
        ta == w.m_logicalAddress
        w1 == IF result = "Handled"
              THEN sendProtocolMessage(w, makeDiagnosticMessage(sa, ta, response))
              ELSE sendProtocolMessage(w,
                       makeDiagnosticNegativeResponse(sa, ta, "TargetUnreachable", <<>>))
    IN  transitionTo(w1, c, "RoutingActivated")

\* the server model's onDownstreamRequest returns env.dres; a provider that
\* accepts the request (Pending) answers through the response sink, either
\* before onDownstreamRequest returns (env.sync) or later
notifyDownstreamRequest(w, c, env) ==
    LET w1 == called(w, "onDownstreamRequest", <<>>, env.dres)
    IN  IF env.dres # "Pending" THEN w1
        ELSE IF env.sync = "None" THEN [w1 EXCEPT !.sink = TRUE]
        ELSE receiveDownstreamResponse(
                 called(w1, "receiveDownstreamResponse", <<>>, env.sync),
                 c, env.payload, env.sync)

\* ------------------------------------------------------------------ closing

\* TcpConnectionTransport::close
transportClose(w) ==
    IF w.tpActive
    THEN [w EXCEPT !.tpActive = FALSE, !.tpCloses = Min(@ + 1, MaxCount)]
    ELSE w

RECURSIVE closeConnection(_, _, _, _)

\* the onCloseConnection handler of the server model; reenter: the handler
\* calls closeConnection on the connection it is notified about
notifyConnectionClosed(w, c, reason, reenter) ==
    LET w1 == [called(w, "onCloseConnection", <<>>, reason)
                 EXCEPT !.notified = IF Len(@) < MaxCount THEN Append(@, reason) ELSE @]
    IN  IF reenter
        THEN closeConnection(called(w1, "closeConnection", <<>>, "ApplicationRequest"),
                             c, "ApplicationRequest", FALSE)
        ELSE w1

\* mutant: m_isOpen is left set
DefaultConnection_closeConnection_StayOpen(w, c, reason, reenter) ==
    LET w1 == transitionTo(w, c, "Closed")
        w2 == [w1 EXCEPT !.m_closeReason = reason]
        w3 == stopAll(w2)
        w4 == transportClose(w3)
    IN  notifyConnectionClosed(w4, c, reason, reenter)

\* mutant: the transport is left open
DefaultConnection_closeConnection_NoTransportClose(w, c, reason, reenter) ==
    LET w1 == transitionTo(w, c, "Closed")
        w2 == [w1 EXCEPT !.m_closeReason = reason]
        w5 == notifyConnectionClosed(stopAll(w2), c, reason, reenter)
    IN  [w5 EXCEPT !.m_isOpen = FALSE]

\* mutant: the server model is notified before the transport is closed
DefaultConnection_closeConnection_NotifyFirst(w, c, reason, reenter) ==
    LET w1 == transitionTo(w, c, "Closed")
        w2 == [w1 EXCEPT !.m_closeReason = reason]
        w3 == stopAll(w2)
        w4 == notifyConnectionClosed(w3, c, reason, reenter)
        w5 == transportClose(w4)
    IN  [w5 EXCEPT !.m_isOpen = FALSE]

DefaultConnection_closeConnection(w, c, reason, reenter) ==
    LET w1 == transitionTo(w, c, "Closed")
        w2 == [w1 EXCEPT !.m_closeReason = reason]
        w3 == stopAll(w2)
        w4 == transportClose(w3)
        w5 == notifyConnectionClosed(w4, c, reason, reenter)
    IN  [w5 EXCEPT !.m_isOpen = FALSE]

\* mutant: the one-shot flag is set but not tested
closeConnection_NoGuard(w, c, reason, reenter) ==
    LET w1 == [w EXCEPT !.m_isClosing = TRUE]
        w2 == DefaultConnection_closeConnection(w1, c, reason, reenter)
    IN  [w2 EXCEPT !.rawCloses = Min(@ + 1, MaxCount)]

\* DoIPConnection::closeConnection
closeConnection(w, c, reason, reenter) ==
    IF w.m_isClosing
    THEN w
    ELSE LET w1 == [w EXCEPT !.m_isClosing = TRUE]
             w2 == DefaultConnection_closeConnection(w1, c, reason, reenter)
         IN  [w2 EXCEPT !.rawCloses = Min(@ + 1, MaxCount)]

\* ----------------------------------------------------------- state handlers

handleSocketInitialized(w, c, msg, env) == transitionTo(w, c, "WaitRoutingActivation")

\* mutant: the routing activation is answered but the client address is not recorded
handleWaitRoutingActivation_NoRecord(w, c, msg, env) ==
    IF Len(msg.sa) # 1 \/ msg.type # "RoutingActivationRequest"
    THEN closeConnection(w, c, "InvalidMessage", env.reenter)
    ELSE transitionTo(sendRoutingActivationResponse(w, msg.sa[1], "RouteActivated"),
                      c, "RoutingActivated")

\* mutant: the payload type of the message is not tested
handleWaitRoutingActivation_NoTypeCheck(w, c, msg, env) ==
    IF Len(msg.sa) # 1
    THEN closeConnection(w, c, "InvalidMessage", env.reenter)
    ELSE LET w1 == [w EXCEPT !.m_logicalAddress = msg.sa[1]]
             w2 == sendRoutingActivationResponse(w1, msg.sa[1], "RouteActivated")
         IN  transitionTo(w2, c, "RoutingActivated")

handleWaitRoutingActivation(w, c, msg, env) ==
    LET sourceAddress == msg.sa
        hasAddress == Len(sourceAddress) = 1
        rightPayloadType == msg.type = "RoutingActivationRequest"
    IN  IF ~hasAddress \/ ~rightPayloadType
        THEN closeConnection(w, c, "InvalidMessage", env.reenter)
        ELSE LET w1 == [w EXCEPT !.m_logicalAddress = sourceAddress[1]]
                 w2 == sendRoutingActivationResponse(w1, sourceAddress[1], "RouteActivated")
             IN  transitionTo(w2, c, "RoutingActivated")

\* the part of handleRoutingActivated that follows a positive acknowledgement
forwardDownstream(w, c, sourceAddress, env) ==
    IF ~hasDownstream[c]
    THEN w
    ELSE LET w1 == notifyDownstreamRequest(w, c, env)
             result == env.dres
         IN  CASE result = "Pending" -> transitionTo(w1, c, "WaitDownstreamResponse")
               [] result = "Handled" -> transitionTo(w1, c, "RoutingActivated")
               [] result = "Error" ->
                     transitionTo(
                         sendDiagnosticMessageResponse(w1, sourceAddress, <<"TargetUnreachable">>),
                         c, "RoutingActivated")
               [] OTHER -> w1

\* mutant: a routing activation request records its source address again
handleRoutingActivated_Rerecord(w, c, msg, env) ==
    CASE msg.type = "AliveCheckResponse" -> restartStateTimer(w)
      [] msg.type = "DiagnosticMessage" ->
            IF Len(msg.sa) # 1
            THEN closeConnection(w, c, "InvalidMessage", env.reenter)
            ELSE IF msg.sa[1] # w.m_logicalAddress
            THEN sendDiagnosticMessageResponse(w, msg.sa[1], <<"InvalidSourceAddress">>)
            ELSE LET w3 == restartStateTimer(sendDiagnosticMessageResponse(
                               notifyDiagnosticMessage(w, env), msg.sa[1], env.ack))
                 IN  IF Len(env.ack) = 1
                     THEN transitionTo(w3, c, "RoutingActivated")
                     ELSE forwardDownstream(w3, c, msg.sa[1], env)
      [] OTHER ->
            sendDiagnosticMessageResponse(
                IF msg.type = "RoutingActivationRequest" /\ Len(msg.sa) = 1
                THEN [w EXCEPT !.m_logicalAddress = msg.sa[1]] ELSE w,
                ZERO_ADDRESS, <<"TransportProtocolError">>)

\* mutant: the timer of the state is not restarted
handleRoutingActivated_NoRestart(w, c, msg, env) ==
    CASE msg.type = "AliveCheckResponse" -> w
      [] msg.type = "DiagnosticMessage" ->
            IF Len(msg.sa) # 1
            THEN closeConnection(w, c, "InvalidMessage", env.reenter)
            ELSE IF msg.sa[1] # w.m_logicalAddress
            THEN sendDiagnosticMessageResponse(w, msg.sa[1], <<"InvalidSourceAddress">>)
            ELSE LET w2 == sendDiagnosticMessageResponse(
                               notifyDiagnosticMessage(w, env), msg.sa[1], env.ack)
                 IN  IF Len(env.ack) = 1
                     THEN transitionTo(w2, c, "RoutingActivated")
                     ELSE forwardDownstream(w2, c, msg.sa[1], env)
      [] OTHER ->
            sendDiagnosticMessageResponse(w, ZERO_ADDRESS, <<"TransportProtocolError">>)

\* mutant: the handler does not stop after a negative acknowledgement
handleRoutingActivated_NoStopOnNack(w, c, msg, env) ==
    CASE msg.type = "AliveCheckResponse" -> restartStateTimer(w)
      [] msg.type = "DiagnosticMessage" ->
            IF Len(msg.sa) # 1
            THEN closeConnection(w, c, "InvalidMessage", env.reenter)
            ELSE IF msg.sa[1] # w.m_logicalAddress
            THEN sendDiagnosticMessageResponse(w, msg.sa[1], <<"InvalidSourceAddress">>)
            ELSE forwardDownstream(
                     restartStateTimer(sendDiagnosticMessageResponse(
                         notifyDiagnosticMessage(w, env), msg.sa[1], env.ack)),
                     c, msg.sa[1], env)
      [] OTHER ->
            sendDiagnosticMessageResponse(w, ZERO_ADDRESS, <<"TransportProtocolError">>)

\* mutant: the source address of a diagnostic message is not compared with the
\* recorded client address
handleRoutingActivated_NoSourceCheck(w, c, msg, env) ==
    CASE msg.type = "AliveCheckResponse" -> restartStateTimer(w)
      [] msg.type = "DiagnosticMessage" ->
            IF Len(msg.sa) # 1
            THEN closeConnection(w, c, "InvalidMessage", env.reenter)
            ELSE LET w3 == restartStateTimer(sendDiagnosticMessageResponse(
                               notifyDiagnosticMessage(w, env), msg.sa[1], env.ack))
                 IN  IF Len(env.ack) = 1
                     THEN transitionTo(w3, c, "RoutingActivated")
                     ELSE forwardDownstream(w3, c, msg.sa[1], env)
      [] OTHER ->
            sendDiagnosticMessageResponse(w, ZERO_ADDRESS, <<"TransportProtocolError">>)

\* mutant: a message of an unsupported payload type is ignored
handleRoutingActivated_IgnoreOther(w, c, msg, env) ==
    CASE msg.type = "AliveCheckResponse" -> restartStateTimer(w)
      [] msg.type = "DiagnosticMessage" ->
            IF Len(msg.sa) # 1
            THEN closeConnection(w, c, "InvalidMessage", env.reenter)
            ELSE IF msg.sa[1] # w.m_logicalAddress
            THEN sendDiagnosticMessageResponse(w, msg.sa[1], <<"InvalidSourceAddress">>)
            ELSE LET w3 == restartStateTimer(sendDiagnosticMessageResponse(
                               notifyDiagnosticMessage(w, env), msg.sa[1], env.ack))
                 IN  IF Len(env.ack) = 1
                     THEN transitionTo(w3, c, "RoutingActivated")
                     ELSE forwardDownstream(w3, c, msg.sa[1], env)
      [] OTHER -> w

handleRoutingActivated(w, c, msg, env) ==
    CASE msg.type = "AliveCheckResponse" -> restartStateTimer(w)
      [] msg.type = "DiagnosticMessage" ->
            LET sourceAddress == msg.sa
            IN  IF Len(sourceAddress) # 1
                THEN closeConnection(w, c, "InvalidMessage", env.reenter)
                ELSE IF sourceAddress[1] # w.m_logicalAddress
                THEN sendDiagnosticMessageResponse(w, sourceAddress[1], <<"InvalidSourceAddress">>)
                ELSE LET ack == env.ack
                         w1 == notifyDiagnosticMessage(w, env)
                         w2 == sendDiagnosticMessageResponse(w1, sourceAddress[1], ack)
                         w3 == restartStateTimer(w2)
                     IN  IF Len(ack) = 1
                         THEN transitionTo(w3, c, "RoutingActivated")
                         ELSE forwardDownstream(w3, c, sourceAddress[1], env)
      [] OTHER ->
            sendDiagnosticMessageResponse(w, ZERO_ADDRESS, <<"TransportProtocolError">>)

\* mutant: a diagnostic message is acknowledged before the state is left
handleWaitAliveCheckResponse_Ack(w, c, msg, env) ==
    IF msg.type = "DiagnosticMessage"
    THEN transitionTo(sendDiagnosticMessageResponse(w, ZERO_ADDRESS, <<>>), c, "RoutingActivated")
    ELSE IF msg.type = "AliveCheckResponse"
    THEN transitionTo(w, c, "RoutingActivated")
    ELSE sendDiagnosticMessageResponse(w, ZERO_ADDRESS, <<"TransportProtocolError">>)

handleWaitAliveCheckResponse(w, c, msg, env) ==
    IF msg.type \in {"DiagnosticMessage", "AliveCheckResponse"}
    THEN transitionTo(w, c, "RoutingActivated")
    ELSE sendDiagnosticMessageResponse(w, ZERO_ADDRESS, <<"TransportProtocolError">>)

\* mutant: the message is answered like an unsupported one in RoutingActivated
handleWaitDownstreamResponse_Nack(w, c, msg, env) ==
    sendDiagnosticMessageResponse(w, ZERO_ADDRESS, <<"TransportProtocolError">>)

handleWaitDownstreamResponse(w, c, msg, env) == w

handleFinalize(w, c, msg, env) == transitionTo(w, c, "Closed")

\* m_state->messageHandler(message); the Closed descriptor has no handler, and
\* calling the empty std::function throws
handleMessage2(w, c, msg, env) ==
    CASE w.m_state = "SocketInitialized" -> handleSocketInitialized(w, c, msg, env)
      [] w.m_state = "WaitRoutingActivation" -> handleWaitRoutingActivation(w, c, msg, env)
      [] w.m_state = "RoutingActivated" -> handleRoutingActivated(w, c, msg, env)
      [] w.m_state = "WaitAliveCheckResponse" -> handleWaitAliveCheckResponse(w, c, msg, env)
      [] w.m_state = "WaitDownstreamResponse" -> handleWaitDownstreamResponse(w, c, msg, env)
      [] w.m_state = "Finalize" -> handleFinalize(w, c, msg, env)
      [] w.m_state = "Closed" -> [w EXCEPT !.raised = TRUE]

\* mutant: general inactivity starts the alive check without sending the request
handleTimeout_NoAliveCheckRequest(w, c, timer_id, env) ==
    CASE timer_id = "InitialInactivity" ->
            closeConnection(w, c, "InitialInactivityTimeout", env.reenter)
      [] timer_id = "GeneralInactivity" -> transitionTo(w, c, "WaitAliveCheckResponse")
      [] timer_id = "AliveCheck" ->
            IF w.m_aliveCheckRetry < AliveCheckRetryCount
            THEN transitionTo(w, c, "WaitAliveCheckResponse")
            ELSE closeConnection(w, c, "AliveCheckTimeout", env.reenter)
      [] timer_id = "DownstreamResponse" -> transitionTo(w, c, "RoutingActivated")
      [] timer_id = "UserDefined" -> w

handleTimeout(w, c, timer_id, env) ==
    CASE timer_id = "InitialInactivity" ->
            closeConnection(w, c, "InitialInactivityTimeout", env.reenter)
      [] timer_id = "GeneralInactivity" ->
            transitionTo(sendAliveCheckRequest(w), c, "WaitAliveCheckResponse")
      [] timer_id = "AliveCheck" ->
            IF w.m_aliveCheckRetry < AliveCheckRetryCount
            THEN transitionTo(w, c, "WaitAliveCheckResponse")
            ELSE closeConnection(w, c, "AliveCheckTimeout", env.reenter)
      [] timer_id = "DownstreamResponse" -> transitionTo(w, c, "RoutingActivated")
      [] timer_id = "UserDefined" -> w

\* the constructor of a connection whose timer manager holds the timers tm
Construct(c, tm) ==
    transitionTo(
        called([m_state |-> "SocketInitialized", m_logicalAddress |-> ZERO_ADDRESS,
                m_aliveCheckRetry |-> 0, m_isClosing |-> FALSE, m_isOpen |-> TRUE,
                m_closeReason |-> "None", tpActive |-> TRUE, tpCloses |-> 0,
                rawCloses |-> 0, notified |-> <<>>, raised |-> FALSE, sink |-> FALSE,
                timers |-> tm, out |-> <<>>, calls |-> <<>>],
               "onOpenConnection", <<>>, "None"),
        c, "WaitRoutingActivation")

\* a slot no connection has been constructed in
Blank ==
    [m_state |-> "SocketInitialized", m_logicalAddress |-> ZERO_ADDRESS,
     m_aliveCheckRetry |-> 0, m_isClosing |-> FALSE, m_isOpen |-> FALSE,
     m_closeReason |-> "None", tpActive |-> FALSE, tpCloses |-> 0, rawCloses |-> 0,
     notified |-> <<>>, raised |-> FALSE, sink |-> FALSE,
     timers |-> {}, out |-> <<>>, calls |-> <<>>]

\* ------------------------------------------------------------------ actions

\* what the server model's callbacks and the downstream provider do during
\* one event: the result of onDiagnosticMessage (ack), the result of
\* onDownstreamRequest (dres), the result the provider passes to the response
\* sink if it invokes it before onDownstreamRequest returns (sync), its payload,
\* and whether the onCloseConnection handler calls closeConnection again
\* (reenter).  A value no callback of the event reads is left at its default.
DefaultEnv ==
    [ack |-> <<>>, dres |-> "Handled", sync |-> "None", payload |-> <<98>>, reenter |-> FALSE]

CloseEnvs == {[DefaultEnv EXCEPT !.reenter = r] : r \in BOOLEAN}

CallbackEnvs ==
    {[DefaultEnv EXCEPT !.ack = a] : a \in DiagnosticAcks}
    \cup {[DefaultEnv EXCEPT !.dres = d] : d \in DownstreamResults}
    \cup {[DefaultEnv EXCEPT !.dres = "Pending", !.sync = "Error"]}
    \cup {[DefaultEnv EXCEPT !.dres = "Pending", !.sync = "Handled", !.payload = p] :
             p \in UdsPayloads}

Envs == CloseEnvs \cup CallbackEnvs

\* an event record: the event and the state of connection c that it finds,
\* with the timers armed in its timer manager; arg is the timer that expired,
\* the close reason or the provider's result
Event(kind, c, msg, arg, payload) ==
    [kind |-> kind, c |-> c, st |-> m_state[c], addr |-> m_logicalAddress[c],
     retry |-> m_aliveCheckRetry[c], closing |-> m_isClosing[c], sink |-> sink[c],
     timers |-> timers[tmOf[c]], msg |-> msg, arg |-> arg, payload |-> payload]

\* the event is an AliveCheckResponse, or a DiagnosticMessage from the recorded
\* client address, handled in RoutingActivated
FromClient(e) ==
    /\ e.kind = "message"
    /\ e.st = "RoutingActivated"
    /\ \/ e.msg.type = "AliveCheckResponse"
       \/ e.msg.type = "DiagnosticMessage" /\ e.msg.sa = <<e.addr>>

\* the connection c and its timer manager are left as in w
Apply(c, w, e) ==
    /\ quiet' = [quiet EXCEPT ![c] = IF FromClient(e) THEN 0 ELSE @]
    /\ m_state' = [m_state EXCEPT ![c] = w.m_state]
    /\ m_logicalAddress' = [m_logicalAddress EXCEPT ![c] = w.m_logicalAddress]
    /\ m_aliveCheckRetry' = [m_aliveCheckRetry EXCEPT ![c] = w.m_aliveCheckRetry]
    /\ m_isClosing' = [m_isClosing EXCEPT ![c] = w.m_isClosing]
    /\ m_isOpen' = [m_isOpen EXCEPT ![c] = w.m_isOpen]
    /\ m_closeReason' = [m_closeReason EXCEPT ![c] = w.m_closeReason]
    /\ tpActive' = [tpActive EXCEPT ![c] = w.tpActive]
    /\ tpCloses' = [tpCloses EXCEPT ![c] = w.tpCloses]
    /\ rawCloses' = [rawCloses EXCEPT ![c] = w.rawCloses]
    /\ notified' = [notified EXCEPT ![c] = w.notified]
    /\ raised' = [raised EXCEPT ![c] = w.raised]
    /\ sink' = [sink EXCEPT ![c] = w.sink]
    /\ timers' = [timers EXCEPT ![tmOf[c]] = w.timers]
    /\ ev' = e
    /\ out' = w.out
    /\ calls' = w.calls
    /\ UNCHANGED <<hasDownstream, tmOf>>

\* an event of a connection, as seen apart from the threads of the server
Commit(c, w, e) == Apply(c, w, e) /\ UNCHANGED <<conns, serverVars, partVars>>

\* the connection's thread received one of the messages msgs and passes it to
\* handleMessage2
Receive(c, msgs, envs) ==
    /\ c \in conns
    /\ ~raised[c]
    /\ \E msg \in msgs, env \in envs :
          Commit(c, handleMessage2(World(c), c, msg, env),
                 Event("message", c, msg, "None", <<>>))

HandleMessage(c) == Receive(c, Messages, Envs)

\* a one-shot timer has run down: the timer manager removes it and calls the
\* timeout handler of the connection that armed it
TimerExpire(m) ==
    \E t \in timers[m], env \in CloseEnvs :
        /\ t.left = 0
        /\ ~raised[t.owner]
        /\ Commit(t.owner,
                  handleTimeout([World(t.owner) EXCEPT !.timers = @ \ {t}],
                                t.owner, t.id, env),
                  Event("timeout", t.owner, NoMsg, t.id, <<>>))

\* the clock advances; a timer that has run down expires first
Tick ==
    /\ \E m \in Conns : timers[m] # {}
    /\ \A m \in Conns : \A t \in timers[m] : t.left > 0
    /\ timers' = [m \in Conns |-> {[t EXCEPT !.left = @ - 1] : t \in timers[m]}]
    /\ ev' = [kind |-> "tick", c |-> 0, st |-> "None", addr |-> ZERO_ADDRESS, retry |-> 0,
              closing |-> FALSE, sink |-> FALSE, timers |-> {}, msg |-> NoMsg,
              arg |-> "None", payload |-> <<>>]
    /\ out' = <<>>
    /\ calls' = <<>>
    /\ quiet' = [c \in Conns |-> Min(quiet[c] + 1, TimerTicks)]
    /\ UNCHANGED <<conns, m_state, m_logicalAddress, m_aliveCheckRetry, m_isClosing,
                   m_isOpen, m_closeReason, tpActive, tpCloses, rawCloses, notified,
                   raised, sink, hasDownstream, tmOf>>
    /\ UNCHANGED <<serverVars, partVars>>

\* the downstream provider invokes the response sink it was handed
DownstreamResponse(c) ==
    /\ c \in conns
    /\ sink[c]
    /\ ~raised[c]
    /\ \E payload \in UdsPayloads, result \in {"Handled", "Error", "Timeout"} :
          Commit(c,
                 receiveDownstreamResponse([World(c) EXCEPT !.sink = FALSE], c, payload, result),
                 Event("downstream", c, NoMsg, result, payload))

\* closeConnection is called from outside the state handlers (closeSocket of
\* the receive loop, the application)
Close(c, reasons, envs) ==
    /\ c \in conns
    /\ ~raised[c]
    /\ \E reason \in reasons, env \in envs :
          Commit(c, closeConnection(World(c), c, reason, env.reenter),
                 Event("close", c, NoMsg, reason, <<>>))

CloseConnection(c) == Close(c, CloseReasons, CloseEnvs)

\* ----------------------------------------------------------- mock transport
\* a default-constructed ThreadSafeQueue
EmptyQueue == [m_queue |-> <<>>, m_stopped |-> FALSE]

\* the messages a test passes to the transport, as their bytes
MockMessages == {<<1>>, <<2, 2>>}

\* std::nullopt, and a message left unset
NoMessage == <<>>

push_Front(q, item) ==
    IF q.m_stopped THEN q ELSE [q EXCEPT !.m_queue = <<item>> \o @]

\* ThreadSafeQueue::push: a stopped queue takes nothing
push(q, item) ==
    IF q.m_stopped THEN q ELSE [q EXCEPT !.m_queue = Append(@, item)]

\* ThreadSafeQueue::tryPop
tryPop(q) ==
    IF q.m_queue = <<>> \/ q.m_stopped
    THEN [ok |-> FALSE, item |-> NoMessage, q |-> q]
    ELSE [ok |-> TRUE, item |-> Head(q.m_queue), q |-> [q EXCEPT !.m_queue = Tail(@)]]

\* mutant: a stopped queue hands out nothing
waitAndPop_NothingAfterStop(q) ==
    IF q.m_stopped \/ q.m_queue = <<>>
    THEN [ok |-> FALSE, item |-> NoMessage, q |-> q]
    ELSE [ok |-> TRUE, item |-> Head(q.m_queue), q |-> [q EXCEPT !.m_queue = Tail(@)]]

\* the condition ThreadSafeQueue::waitAndPop waits for
waitAndPopReady(q) == q.m_queue # <<>> \/ q.m_stopped

\* ThreadSafeQueue::waitAndPop once its wait has ended
waitAndPop(q) ==
    IF q.m_stopped /\ q.m_queue = <<>>
    THEN [ok |-> FALSE, item |-> NoMessage, q |-> q]
    ELSE [ok |-> TRUE, item |-> Head(q.m_queue), q |-> [q EXCEPT !.m_queue = Tail(@)]]

\* ThreadSafeQueue::pop once wait_for has ended: with false at its timeout,
\* when the queue is still empty and not stopped, else as waitAndPop
pop(q) ==
    IF q.m_queue = <<>>
    THEN [ok |-> FALSE, item |-> NoMessage, q |-> q]
    ELSE [ok |-> TRUE, item |-> Head(q.m_queue), q |-> [q EXCEPT !.m_queue = Tail(@)]]

\* ThreadSafeQueue::stop
stopQueue(q) == [q EXCEPT !.m_stopped = TRUE]

\* ThreadSafeQueue::clear: the items are dropped, m_stopped stays
clear(q) == [q EXCEPT !.m_queue = <<>>]

size(q) == Len(q.m_queue)

\* a MockConnectionTransport after its constructor
InitMock ==
    /\ m_isActive = TRUE
    /\ m_blocking = FALSE
    /\ m_sentQueue = EmptyQueue
    /\ m_receiveQueue = EmptyQueue
    /\ receiver = "idle"
    /\ mockCall = [op |-> "none", arg |-> NoMessage, ret |-> 0, msg |-> NoMessage]
    /\ mockLog = [sent |-> <<>>, popped |-> <<>>, injected |-> <<>>, received |-> <<>>]

Returned(op, arg, ret, msg) == [op |-> op, arg |-> arg, ret |-> ret, msg |-> msg]

Mock_sentMessageCount == size(m_sentQueue)

Mock_setBlocking(blocking) ==
    /\ m_blocking' = blocking
    /\ mockCall' = Returned("setBlocking", NoMessage, 0, NoMessage)
    /\ UNCHANGED <<m_isActive, m_sentQueue, m_receiveQueue, receiver, mockLog>>
    /\ UNCHANGED <<connVars, serverVars, tcpVars, queueVars>>

\* sendMessage returns -1 on a closed transport, the size of the message else
Mock_sendMessage(msg) ==
    /\ Len(mockLog.sent) < MaxQueue
    /\ IF ~m_isActive
       THEN /\ mockCall' = Returned("sendMessage", msg, -1, NoMessage)
            /\ UNCHANGED <<m_sentQueue, mockLog>>
       ELSE /\ m_sentQueue' = push(m_sentQueue, msg)
            /\ mockCall' = Returned("sendMessage", msg, Len(msg), NoMessage)
            /\ mockLog' = [mockLog EXCEPT !.sent = Append(@, msg)]
    /\ UNCHANGED <<m_isActive, m_blocking, m_receiveQueue, receiver>>
    /\ UNCHANGED <<connVars, serverVars, tcpVars, queueVars>>

\* receiveMessage is called: it returns at once on a closed transport, in
\* non-blocking mode and when a message waits, and else blocks in waitAndPop
Mock_receiveMessage ==
    /\ receiver = "idle"
    /\ IF ~m_isActive
       THEN /\ mockCall' = Returned("receiveMessage", NoMessage, 0, NoMessage)
            /\ UNCHANGED <<m_receiveQueue, receiver, mockLog>>
       ELSE IF m_blocking /\ ~waitAndPopReady(m_receiveQueue)
       THEN /\ receiver' = "waitAndPop"
            /\ UNCHANGED <<m_receiveQueue, mockCall, mockLog>>
       ELSE LET r == IF m_blocking THEN waitAndPop(m_receiveQueue)
                                   ELSE tryPop(m_receiveQueue)
            IN  /\ m_receiveQueue' = r.q
                /\ mockCall' = Returned("receiveMessage", NoMessage,
                                        IF r.ok THEN 1 ELSE 0, r.item)
                /\ mockLog' = [mockLog EXCEPT !.received =
                                   IF r.ok THEN Append(@, r.item) ELSE @]
                /\ UNCHANGED receiver
    /\ UNCHANGED <<m_isActive, m_blocking, m_sentQueue>>
    /\ UNCHANGED <<connVars, serverVars, tcpVars, queueVars>>

\* the wait of a blocked receiveMessage ends and the call returns
Mock_waitAndPop ==
    /\ receiver = "waitAndPop"
    /\ waitAndPopReady(m_receiveQueue)
    /\ LET r == waitAndPop(m_receiveQueue)
       IN  /\ m_receiveQueue' = r.q
           /\ mockCall' = Returned("receiveMessage", NoMessage,
                                   IF r.ok THEN 1 ELSE 0, r.item)
           /\ mockLog' = [mockLog EXCEPT !.received =
                              IF r.ok THEN Append(@, r.item) ELSE @]
    /\ receiver' = "idle"
    /\ UNCHANGED <<m_isActive, m_blocking, m_sentQueue>>
    /\ UNCHANGED <<connVars, serverVars, tcpVars, queueVars>>

\* close: m_isActive is cleared and both queues are cleared
Mock_close ==
    /\ m_isActive' = FALSE
    /\ m_receiveQueue' = clear(m_receiveQueue)
    /\ m_sentQueue' = clear(m_sentQueue)
    /\ mockCall' = Returned("close", NoMessage, 0, NoMessage)
    /\ mockLog' = [sent |-> <<>>, popped |-> <<>>, injected |-> <<>>, received |-> <<>>]
    /\ UNCHANGED <<m_blocking, receiver>>
    /\ UNCHANGED <<connVars, serverVars, tcpVars, queueVars>>

Mock_injectMessage(msg) ==
    /\ Len(mockLog.injected) < MaxQueue
    /\ m_receiveQueue' = push(m_receiveQueue, msg)
    /\ mockCall' = Returned("injectMessage", msg, 0, NoMessage)
    /\ mockLog' = [mockLog EXCEPT !.injected = Append(@, msg)]
    /\ UNCHANGED <<m_isActive, m_blocking, m_sentQueue, receiver>>
    /\ UNCHANGED <<connVars, serverVars, tcpVars, queueVars>>

Mock_popSentMessage ==
    /\ LET r == tryPop(m_sentQueue)
       IN  /\ m_sentQueue' = r.q
           /\ mockCall' = Returned("popSentMessage", NoMessage,
                                   IF r.ok THEN 1 ELSE 0, r.item)
           /\ mockLog' = [mockLog EXCEPT !.popped =
                              IF r.ok THEN Append(@, r.item) ELSE @]
    /\ UNCHANGED <<m_isActive, m_blocking, m_receiveQueue, receiver>>
    /\ UNCHANGED <<connVars, serverVars, tcpVars, queueVars>>

Mock_clearQueues ==
    /\ m_sentQueue' = clear(m_sentQueue)
    /\ m_receiveQueue' = clear(m_receiveQueue)
    /\ mockCall' = Returned("clearQueues", NoMessage, 0, NoMessage)
    /\ mockLog' = [sent |-> <<>>, popped |-> <<>>, injected |-> <<>>, received |-> <<>>]
    /\ UNCHANGED <<m_isActive, m_blocking, receiver>>
    /\ UNCHANGED <<connVars, serverVars, tcpVars, queueVars>>

\* a test thread drives the transport while another thread receives from it
NextMock ==
    \/ \E blocking \in BOOLEAN : Mock_setBlocking(blocking)
    \/ \E msg \in MockMessages : Mock_sendMessage(msg)
    \/ Mock_receiveMessage
    \/ Mock_waitAndPop
    \/ Mock_close
    \/ \E msg \in MockMessages : Mock_injectMessage(msg)
    \/ Mock_popSentMessage
    \/ Mock_clearQueues

\* ------------------------------------------------- TCP connection transport

\* how reading a message from the socket ends: with a message, or with the
\* peer having closed, a failed recv, a header that does not parse, a payload
\* longer than m_receiveBuffer, or a payload cut short
TcpReceived == {"message", "peerClosed", "error", "invalidHeader", "tooLong", "truncated"}

\* a TcpConnectionTransport after its constructor; closes counts the closes of
\* the descriptor it was handed
InitTcp ==
    /\ tcpTransport = [m_socket |-> 3, m_isActive |-> TRUE, closes |-> 0,
                       destroyed |-> FALSE]
    /\ tcpCall = [op |-> "none", how |-> "none", ret |-> 0]
    /\ tcpTraffic = [sent |-> 0, received |-> 0]

\* TcpConnectionTransport::close, and shutdownSocket of the destructor: the
\* descriptor is closed if m_isActive was still set
Tcp_closeSocket(t) ==
    IF t.m_isActive
    THEN IF t.m_socket >= 0
         THEN [t EXCEPT !.m_isActive = FALSE, !.m_socket = -1,
                        !.closes = Min(@ + 1, MaxCount)]
         ELSE [t EXCEPT !.m_isActive = FALSE]
    ELSE t

\* sendMessage: -1 on an inactive transport; a write that fails clears
\* m_isActive
Tcp_sendMessage ==
    /\ ~tcpTransport.destroyed
    /\ IF ~tcpTransport.m_isActive
       THEN /\ tcpCall' = [op |-> "sendMessage", how |-> "inactive", ret |-> -1]
            /\ UNCHANGED <<tcpTransport, tcpTraffic>>
       ELSE \E written \in BOOLEAN :
               IF written
               THEN /\ tcpCall' = [op |-> "sendMessage", how |-> "written", ret |-> 1]
                    /\ tcpTraffic' = [tcpTraffic EXCEPT !.sent = Min(@ + 1, MaxQueue)]
                    /\ UNCHANGED tcpTransport
               ELSE /\ tcpCall' = [op |-> "sendMessage", how |-> "error", ret |-> -1]
                    /\ tcpTransport' = [tcpTransport EXCEPT !.m_isActive = FALSE]
                    /\ UNCHANGED tcpTraffic
    /\ UNCHANGED <<connVars, serverVars, mockVars, queueVars>>

\* receiveMessage: no message from an inactive transport; every read that does
\* not end with a message clears m_isActive
Tcp_receiveMessage ==
    /\ ~tcpTransport.destroyed
    /\ IF ~tcpTransport.m_isActive
       THEN /\ tcpCall' = [op |-> "receiveMessage", how |-> "inactive", ret |-> 0]
            /\ UNCHANGED <<tcpTransport, tcpTraffic>>
       ELSE \E how \in TcpReceived :
               IF how = "message"
               THEN /\ tcpCall' = [op |-> "receiveMessage", how |-> how, ret |-> 1]
                    /\ tcpTraffic' = [tcpTraffic EXCEPT !.received = Min(@ + 1, MaxQueue)]
                    /\ UNCHANGED tcpTransport
               ELSE /\ tcpCall' = [op |-> "receiveMessage", how |-> how, ret |-> 0]
                    /\ tcpTransport' = [tcpTransport EXCEPT !.m_isActive = FALSE]
                    /\ UNCHANGED tcpTraffic
    /\ UNCHANGED <<connVars, serverVars, mockVars, queueVars>>

Tcp_close ==
    /\ ~tcpTransport.destroyed
    /\ tcpTransport' = Tcp_closeSocket(tcpTransport)
    /\ tcpCall' = [op |-> "close", how |-> "none", ret |-> 0]
    /\ UNCHANGED tcpTraffic
    /\ UNCHANGED <<connVars, serverVars, mockVars, queueVars>>

\* the destructor
Tcp_destructor ==
    /\ ~tcpTransport.destroyed
    /\ tcpTransport' = [Tcp_closeSocket(tcpTransport) EXCEPT !.destroyed = TRUE]
    /\ tcpCall' = [op |-> "destructor", how |-> "none", ret |-> 0]
    /\ UNCHANGED tcpTraffic
    /\ UNCHANGED <<connVars, serverVars, mockVars, queueVars>>

\* a transport from its construction to its destruction
NextTcp ==
    \/ Tcp_sendMessage
    \/ Tcp_receiveMessage
    \/ Tcp_close
    \/ Tcp_destructor

\* ---------------------------------------------------------- ThreadSafeQueue

\* the threads that take items from the queue
Consumers == 1..NumConsumers

\* a call that has returned: its result and what it found under the mutex:
\* m_stopped, an empty queue, and whether it made the queue longer
QueueCall(op, ok, q, q2) ==
    [op |-> op, ok |-> ok, stopped |-> q.m_stopped,
     empty |-> q.m_queue = <<>>, grew |-> Len(q2.m_queue) > Len(q.m_queue)]

\* an empty queue of numbered items; no thread is in a call.  pushed counts
\* the items pushed, accepted lists those the queue took, delivered lists the
\* items handed out with the thread that got each
InitQueue ==
    /\ tsq = EmptyQueue
    /\ consumer = [k \in Consumers |-> "idle"]
    /\ tsqLog = [pushed |-> 0, accepted |-> <<>>, delivered |-> <<>>,
                 call |-> QueueCall("none", FALSE, EmptyQueue, EmptyQueue)]

\* a pop, waitAndPop or tryPop of thread k returns r
Taken(op, k, r) ==
    /\ tsq' = r.q
    /\ consumer' = [consumer EXCEPT ![k] = "idle"]
    /\ tsqLog' = [tsqLog EXCEPT
                      !.delivered = IF r.ok THEN Append(@, [item |-> r.item, k |-> k]) ELSE @,
                      !.call = QueueCall(op, r.ok, tsq, r.q)]
    /\ UNCHANGED <<connVars, serverVars, mockVars, tcpVars>>

\* a producer pushes the next item
Queue_push ==
    /\ tsqLog.pushed < MaxItems
    /\ LET item == tsqLog.pushed + 1
           q == push(tsq, item)
       IN  /\ tsq' = q
           /\ tsqLog' = [tsqLog EXCEPT
                             !.pushed = item,
                             !.accepted = IF q # tsq THEN Append(@, item) ELSE @,
                             !.call = QueueCall("push", TRUE, tsq, q)]
    /\ UNCHANGED consumer
    /\ UNCHANGED <<connVars, serverVars, mockVars, tcpVars>>

\* thread k calls pop or waitAndPop and waits on the condition variable
Queue_wait(k, op) ==
    /\ consumer[k] = "idle"
    /\ consumer' = [consumer EXCEPT ![k] = op]
    /\ UNCHANGED <<tsq, tsqLog>>
    /\ UNCHANGED <<connVars, serverVars, mockVars, tcpVars>>

\* the wait_for of pop ends, by a notification or at its timeout
Queue_pop(k) ==
    /\ consumer[k] = "pop"
    /\ Taken("pop", k, pop(tsq))

\* the wait of waitAndPop ends
Queue_waitAndPop(k) ==
    /\ consumer[k] = "waitAndPop"
    /\ waitAndPopReady(tsq)
    /\ Taken("waitAndPop", k, waitAndPop(tsq))

Queue_tryPop(k) ==
    /\ consumer[k] = "idle"
    /\ Taken("tryPop", k, tryPop(tsq))

Queue_stop ==
    /\ tsq' = stopQueue(tsq)
    /\ tsqLog' = [tsqLog EXCEPT !.call = QueueCall("stop", TRUE, tsq, tsq)]
    /\ UNCHANGED consumer
    /\ UNCHANGED <<connVars, serverVars, mockVars, tcpVars>>

NextQueue ==
    \/ Queue_push
    \/ \E k \in Consumers : Queue_wait(k, "pop")
    \/ \E k \in Consumers : Queue_wait(k, "waitAndPop")
    \/ \E k \in Consumers : Queue_pop(k)
    \/ \E k \in Consumers : Queue_waitAndPop(k)
    \/ \E k \in Consumers : Queue_tryPop(k)
    \/ Queue_stop

InitParts == InitMock /\ InitTcp /\ InitQueue

\* ----------------------------------------------------------- specification

ServerThreads == {"tcpListener", "udpListener", "announce"}

\* a server after its constructor: no socket set up, no thread started
InitServer ==
    /\ m_udpRunning = FALSE
    /\ m_tcpRunning = FALSE
    /\ m_tcpSock = FALSE
    /\ m_udpLock = FALSE
    /\ m_workerThreads = {}
    /\ thread = [t \in ServerThreads |-> "none"]
    /\ handler = [c \in Conns |-> "none"]
    /\ stopAt = "idle"
    /\ announced = 0
    /\ received = [c |-> 0, len |-> 0, copied |-> 0, ret |-> 0]
    /\ datagram = [kind |-> "timeout", failed |-> FALSE, sent |-> <<>>]

\* one connection, constructed with a timer manager of its own
Init ==
    /\ InitServer
    /\ InitParts
    /\ quiet = [c \in Conns |-> 0]
    /\ conns = {1}
    /\ tmOf = [c \in Conns |-> c]
    /\ hasDownstream \in {h \in [Conns -> BOOLEAN] : \A c \in Conns \ {1} : ~h[c]}
    /\ LET w == [c \in Conns |-> IF c = 1 THEN Construct(c, {}) ELSE Blank]
       IN  /\ m_state = [c \in Conns |-> w[c].m_state]
           /\ m_logicalAddress = [c \in Conns |-> w[c].m_logicalAddress]
           /\ m_aliveCheckRetry = [c \in Conns |-> w[c].m_aliveCheckRetry]
           /\ m_isClosing = [c \in Conns |-> w[c].m_isClosing]
           /\ m_isOpen = [c \in Conns |-> w[c].m_isOpen]
           /\ m_closeReason = [c \in Conns |-> w[c].m_closeReason]
           /\ tpActive = [c \in Conns |-> w[c].tpActive]
           /\ tpCloses = [c \in Conns |-> w[c].tpCloses]
           /\ rawCloses = [c \in Conns |-> w[c].rawCloses]
           /\ notified = [c \in Conns |-> w[c].notified]
           /\ raised = [c \in Conns |-> w[c].raised]
           /\ sink = [c \in Conns |-> w[c].sink]
           /\ timers = [c \in Conns |-> w[c].timers]
           /\ out = w[1].out
           /\ calls = w[1].calls
    /\ ev = [kind |-> "construct", c |-> 1, st |-> "SocketInitialized",
             addr |-> ZERO_ADDRESS, retry |-> 0, closing |-> FALSE, sink |-> FALSE,
             timers |-> {}, msg |-> NoMsg, arg |-> "None", payload |-> <<>>]

Next ==
    \/ \E c \in Conns : HandleMessage(c)
    \/ \E m \in Conns : TimerExpire(m)
    \/ Tick
    \/ \E c \in Conns : DownstreamResponse(c)
    \/ \E c \in Conns : CloseConnection(c)

Spec == Init /\ [][Next]_vars

\* -------------------------------------------- connections of one server

\* the accept loop wraps the next accepted socket in a connection and hands it
\* the timer manager of the server
Accept(c) ==
    /\ c \notin conns
    /\ \A d \in Conns : d < c => d \in conns
    /\ conns' = conns \cup {c}
    /\ Apply(c, Construct(c, timers[tmOf[c]]), Event("construct", c, NoMsg, "None", <<>>))
    /\ UNCHANGED <<serverVars, partVars>>

\* the clients of the server: each activates its routing, sends diagnostic
\* messages from its address and answers alive checks
ClientMessages ==
    {[type |-> t, sa |-> <<3712>>] :
        t \in {"RoutingActivationRequest", "DiagnosticMessage", "AliveCheckResponse"}}

\* a server that has accepted no connection yet; every connection will share
\* its one timer manager, and its server model has no downstream handler
InitConnections ==
    /\ conns = {}
    /\ quiet = [c \in Conns |-> 0]
    /\ tmOf = [c \in Conns |-> 1]
    /\ hasDownstream = [c \in Conns |-> FALSE]
    /\ m_state = [c \in Conns |-> Blank.m_state]
    /\ m_logicalAddress = [c \in Conns |-> Blank.m_logicalAddress]
    /\ m_aliveCheckRetry = [c \in Conns |-> Blank.m_aliveCheckRetry]
    /\ m_isClosing = [c \in Conns |-> Blank.m_isClosing]
    /\ m_isOpen = [c \in Conns |-> Blank.m_isOpen]
    /\ m_closeReason = [c \in Conns |-> Blank.m_closeReason]
    /\ tpActive = [c \in Conns |-> Blank.tpActive]
    /\ tpCloses = [c \in Conns |-> Blank.tpCloses]
    /\ rawCloses = [c \in Conns |-> Blank.rawCloses]
    /\ notified = [c \in Conns |-> Blank.notified]
    /\ raised = [c \in Conns |-> Blank.raised]
    /\ sink = [c \in Conns |-> Blank.sink]
    /\ timers = [c \in Conns |-> Blank.timers]
    /\ out = Blank.out
    /\ calls = Blank.calls
    /\ ev = [kind |-> "start", c |-> 0, st |-> "None", addr |-> ZERO_ADDRESS, retry |-> 0,
             closing |-> FALSE, sink |-> FALSE, timers |-> {}, msg |-> NoMsg,
             arg |-> "None", payload |-> <<>>]

NextShared ==
    \/ \E c \in Conns : Accept(c)
    \/ \E c \in Conns : Receive(c, ClientMessages, {DefaultEnv})
    \/ \E m \in Conns : TimerExpire(m)
    \/ Tick
    \/ \E c \in Conns : Close(c, {"SocketError"}, {DefaultEnv})

InitShared == InitServer /\ InitParts /\ InitConnections

SpecShared == InitShared /\ [][NextShared]_vars

\* ------------------------------------------------------------------ server

\* setupTcpSocket: the socket listens and the accept loop is started
setupTcpSocket ==
    /\ stopAt = "idle"
    /\ thread["tcpListener"] = "none"
    /\ m_tcpSock' = TRUE
    /\ m_tcpRunning' = TRUE
    /\ m_workerThreads' = m_workerThreads \cup {"tcpListener"}
    /\ thread' = [thread EXCEPT !["tcpListener"] = "loop"]
    /\ UNCHANGED <<m_udpRunning, m_udpLock, handler, stopAt, announced, received, datagram>>
    /\ UNCHANGED <<connVars, partVars>>

\* setupUdpSocket: the socket is bound and the listener and the announcement
\* thread are started
setupUdpSocket ==
    /\ stopAt = "idle"
    /\ thread["udpListener"] = "none"
    /\ m_udpLock' = TRUE
    /\ m_udpRunning' = TRUE
    /\ m_workerThreads' = m_workerThreads \cup {"udpListener", "announce"}
    /\ thread' = [thread EXCEPT !["udpListener"] = "loop", !["announce"] = "loop"]
    /\ UNCHANGED <<m_tcpRunning, m_tcpSock, handler, stopAt, announced, received, datagram>>
    /\ UNCHANGED <<connVars, partVars>>

\* tcpListenerThread at the head of its loop: it tests m_tcpRunning and blocks
\* in accept
tcpListenerThread ==
    /\ thread["tcpListener"] = "loop"
    /\ thread' = [thread EXCEPT !["tcpListener"] = IF m_tcpRunning THEN "accept" ELSE "done"]
    /\ UNCHANGED <<m_udpRunning, m_tcpRunning, m_tcpSock, m_udpLock, m_workerThreads,
                   handler, stopAt, announced, received, datagram>>
    /\ UNCHANGED <<connVars, partVars>>

\* a client connects: accept returns, the connection is constructed with the
\* timer manager of the server and a detached thread is started for it
waitForTcpConnection(c) ==
    /\ thread["tcpListener"] = "accept"
    /\ c \in 1..MaxAccept
    /\ c \notin conns
    /\ \A d \in Conns : d < c => d \in conns
    /\ conns' = conns \cup {c}
    /\ Apply(c, Construct(c, timers[tmOf[c]]), Event("construct", c, NoMsg, "None", <<>>))
    /\ handler' = [handler EXCEPT ![c] = "loop"]
    /\ thread' = [thread EXCEPT !["tcpListener"] = "loop"]
    /\ UNCHANGED <<m_udpRunning, m_tcpRunning, m_tcpSock, m_udpLock, m_workerThreads,
                   stopAt, announced, received, datagram, partVars>>

\* udpListenerThread at the head of its loop: it tests m_udpRunning and waits
\* in recvfrom for at most a second
udpListenerThread ==
    /\ thread["udpListener"] = "loop"
    /\ thread' = [thread EXCEPT !["udpListener"] =
                      IF m_udpRunning THEN "recvfrom" ELSE "done"]
    /\ UNCHANGED <<m_udpRunning, m_tcpRunning, m_tcpSock, m_udpLock, m_workerThreads,
                   handler, stopAt, announced, received, datagram>>
    /\ UNCHANGED <<connVars, partVars>>

\* how recvfrom returns: at its timeout, with an error, or with a datagram
\* whose header does not parse, that is a VehicleIdentificationRequest, or that
\* has another payload type
UdpReceived == {"timeout", "error", "InvalidHeader", "VehicleIdentificationRequest", "Other"}

\* how sendto returns
SendResults == {"sent", "EAGAIN", "error"}

\* the response to a datagram of payload type plType
udpResponse(plType) ==
    IF plType = "VehicleIdentificationRequest"
    THEN "VehicleIdentificationResponse"
    ELSE "UnknownPayloadType"

\* recvfrom returns in one of the ways of kinds and the datagram is answered.
\* After the negative ack for a header that does not parse the empty optHeader
\* is dereferenced: the payload type that is switched on is whatever it holds.
\* A sendto that fails ends the loop unless it failed with EAGAIN.
udpListenerReceived(kinds) ==
    /\ thread["udpListener"] = "recvfrom"
    /\ \E kind \in kinds, first \in SendResults, last \in SendResults,
          garbage \in {"VehicleIdentificationRequest", "Other"} :
          LET parsed == kind # "InvalidHeader"
              nacked == IF parsed THEN <<>>
                        ELSE IF first = "sent" THEN <<"IncorrectPatternFormat">> ELSE <<>>
              goesOn == parsed \/ first = "sent"
              plType == IF parsed THEN kind ELSE garbage
              result == IF goesOn THEN last ELSE first
          IN  IF kind \in {"timeout", "error"}
              THEN /\ datagram' = [kind |-> kind, failed |-> FALSE, sent |-> <<>>]
                   /\ thread' = [thread EXCEPT !["udpListener"] =
                                     IF kind = "timeout" THEN "loop" ELSE "done"]
              ELSE /\ datagram' =
                         [kind |-> kind, failed |-> result # "sent",
                          sent |-> IF goesOn /\ last = "sent"
                                   THEN Append(nacked, udpResponse(plType))
                                   ELSE nacked]
                   /\ thread' = [thread EXCEPT !["udpListener"] =
                                     IF result = "error" THEN "done" ELSE "loop"]
    /\ UNCHANGED <<m_udpRunning, m_tcpRunning, m_tcpSock, m_udpLock, m_workerThreads,
                   handler, stopAt, announced, received>>
    /\ UNCHANGED <<connVars, partVars>>

\* mutant: the loop does not test the stop flag
udpAnnouncementThread_IgnoreStop ==
    /\ thread["announce"] = "loop"
    /\ IF announced < AnnounceCount
       THEN /\ announced' = announced + 1
            /\ thread' = [thread EXCEPT !["announce"] = "sleep"]
       ELSE /\ announced' = announced
            /\ thread' = [thread EXCEPT !["announce"] = "done"]
    /\ UNCHANGED <<m_udpRunning, m_tcpRunning, m_tcpSock, m_udpLock, m_workerThreads,
                   handler, stopAt, received, datagram>>
    /\ UNCHANGED <<connVars, partVars>>

\* udpAnnouncementThread at the head of its loop: an announcement is sent if
\* fewer than announceCount were and the server runs
udpAnnouncementThread ==
    /\ thread["announce"] = "loop"
    /\ IF announced < AnnounceCount /\ m_udpRunning
       THEN /\ announced' = announced + 1
            /\ thread' = [thread EXCEPT !["announce"] = "sleep"]
       ELSE /\ announced' = announced
            /\ thread' = [thread EXCEPT !["announce"] = "done"]
    /\ UNCHANGED <<m_udpRunning, m_tcpRunning, m_tcpSock, m_udpLock, m_workerThreads,
                   handler, stopAt, received, datagram>>
    /\ UNCHANGED <<connVars, partVars>>

\* the announcement interval has passed
udpAnnouncementSlept ==
    /\ thread["announce"] = "sleep"
    /\ thread' = [thread EXCEPT !["announce"] = "loop"]
    /\ UNCHANGED <<m_udpRunning, m_tcpRunning, m_tcpSock, m_udpLock, m_workerThreads,
                   handler, stopAt, announced, received, datagram>>
    /\ UNCHANGED <<connVars, partVars>>

isSocketActive(c) == m_isOpen[c]

\* connectionHandlerThread at the head of its loop: it tests m_udpRunning and
\* the connection and blocks in receiveTcpMessage
connectionHandlerThread(c) ==
    /\ handler[c] = "loop"
    /\ handler' = [handler EXCEPT ![c] =
                       IF m_udpRunning /\ isSocketActive(c) THEN "receive" ELSE "done"]
    /\ UNCHANGED <<m_udpRunning, m_tcpRunning, m_tcpSock, m_udpLock, m_workerThreads,
                   thread, stopAt, announced, received, datagram>>
    /\ UNCHANGED <<connVars, partVars>>

\* what ends a read of receiveTcpMessage without the bytes it waited for
ReceiveFailures == {"PeerClosed", "SocketError"}

\* the payload lengths a header declares: up to the size of m_receiveBuf and
\* beyond it
PayloadLengths == {ReceiveBufSize, ReceiveBufSize + 1}

\* what a client sends unasked; no alive check is requested while no timer
\* runs down
UnsolicitedMessages == {m \in ClientMessages : m.type # "AliveCheckResponse"}

\* closeSocket
closeSocket(w, c) == closeConnection(w, c, "ApplicationRequest", FALSE)

\* receiveTcpMessage: the header is read and parsed, the payload is read into
\* m_receiveBuf and the message is passed to handleMessage2; a read that fails
\* and a header that does not parse close the socket.  A payload longer than
\* m_receiveBuf is written past its end: the handler goes on or the process
\* is lost.
receiveTcpMessage(c) ==
    /\ handler[c] = "receive"
    /\ ~raised[c]
    /\ \/ \E cause \in ReceiveFailures :
             /\ Apply(c, closeSocket(World(c), c), Event("receive", c, NoMsg, cause, <<>>))
             /\ received' = [c |-> c, len |-> 0, copied |-> 0, ret |-> 0]
             /\ handler' = [handler EXCEPT ![c] = "loop"]
       \/ /\ Apply(c, closeSocket(World(c), c),
                    Event("receive", c, NoMsg, "InvalidHeader", <<>>))
          /\ received' = [c |-> c, len |-> 0, copied |-> 0, ret |-> -2]
          /\ handler' = [handler EXCEPT ![c] = "done"]
       \/ \E cause \in ReceiveFailures, len \in PayloadLengths :
             /\ Apply(c, closeSocket(World(c), c), Event("receive", c, NoMsg, cause, <<>>))
             /\ received' = [c |-> c, len |-> len, copied |-> len - 1, ret |-> -2]
             /\ handler' = [handler EXCEPT ![c] = "done"]
       \/ \E msg \in UnsolicitedMessages, len \in PayloadLengths, lost \in BOOLEAN :
             LET w == handleMessage2(World(c), c, msg, DefaultEnv)
                 crashed == lost /\ len > ReceiveBufSize
             IN  /\ Apply(c, IF crashed THEN [World(c) EXCEPT !.raised = TRUE] ELSE w,
                          Event("message", c, msg, "None", <<>>))
                 /\ received' = [c |-> c, len |-> len, copied |-> len, ret |-> 1]
                 /\ handler' = [handler EXCEPT ![c] =
                                    IF crashed \/ w.raised THEN "done" ELSE "loop"]
    /\ UNCHANGED <<conns, m_udpRunning, m_tcpRunning, m_tcpSock, m_udpLock,
                   m_workerThreads, thread, stopAt, announced, datagram, partVars>>

\* stop: the flags are cleared
stop ==
    /\ stopAt = "idle"
    /\ m_udpRunning' = FALSE
    /\ m_tcpRunning' = FALSE
    /\ stopAt' = "join"
    /\ UNCHANGED <<m_tcpSock, m_udpLock, m_workerThreads, thread, handler, announced, received, datagram>>
    /\ UNCHANGED <<connVars, partVars>>

\* mutant: the sockets are closed without waiting for the threads
stopJoined_NoJoin ==
    /\ stopAt = "join"
    /\ m_workerThreads' = {}
    /\ stopAt' = "close"
    /\ UNCHANGED <<m_udpRunning, m_tcpRunning, m_tcpSock, m_udpLock, thread, handler,
                   announced, received, datagram>>
    /\ UNCHANGED <<connVars, partVars>>

\* stop: every thread of m_workerThreads has been joined
stopJoined ==
    /\ stopAt = "join"
    /\ \A t \in m_workerThreads : thread[t] = "done"
    /\ m_workerThreads' = {}
    /\ stopAt' = "close"
    /\ UNCHANGED <<m_udpRunning, m_tcpRunning, m_tcpSock, m_udpLock, thread, handler,
                   announced, received, datagram>>
    /\ UNCHANGED <<connVars, partVars>>

\* stop: closeUdpSocket and closeTcpSocket, then stop returns
closeUdpSocket ==
    /\ stopAt = "close"
    /\ m_udpRunning' = FALSE
    /\ m_udpLock' = FALSE
    /\ m_tcpSock' = FALSE
    /\ stopAt' = "returned"
    /\ UNCHANGED <<m_tcpRunning, m_workerThreads, thread, handler, announced, received, datagram>>
    /\ UNCHANGED <<connVars, partVars>>

NextServer ==
    \/ setupTcpSocket
    \/ setupUdpSocket
    \/ tcpListenerThread
    \/ \E c \in Conns : waitForTcpConnection(c)
    \/ udpListenerThread
    \/ udpListenerReceived({"timeout"})
    \/ udpAnnouncementThread
    \/ udpAnnouncementSlept
    \/ \E c \in Conns : connectionHandlerThread(c)
    \/ \E c \in Conns : receiveTcpMessage(c)
    \/ stop
    \/ stopJoined
    \/ closeUdpSocket

\* the threads of the server while no connection timer runs down
SpecServer == InitShared /\ [][NextServer]_vars

\* the UDP side of the server with datagrams arriving
NextUdp ==
    \/ setupUdpSocket
    \/ udpListenerThread
    \/ udpListenerReceived(UdpReceived)
    \/ udpAnnouncementThread
    \/ udpAnnouncementSlept
    \/ stop
    \/ stopJoined
    \/ closeUdpSocket

SpecUdp == InitShared /\ [][NextUdp]_vars

SpecTcp == InitShared /\ [][NextTcp]_vars

\* a mock transport in the hands of a test
SpecMock == InitShared /\ [][NextMock]_vars

\* a receiver whose wait can end returns; nothing makes the test inject
FairSpecMock == SpecMock /\ WF_vars(Mock_waitAndPop)

\* producers and consumers of one ThreadSafeQueue
SpecQueue == InitShared /\ [][NextQueue]_vars

\* a thread whose wait on the condition variable can end returns
FairSpecQueue ==
    /\ SpecQueue
    /\ \A k \in Consumers : WF_vars(Queue_waitAndPop(k))

\* time passes and a timer that has run down fires; nothing makes a client
\* send, the provider answer or the application close
FairSpec ==
    /\ Spec
    /\ WF_vars(Tick)
    /\ WF_vars(\E m \in Conns : TimerExpire(m))

\* every thread that can take a step takes it; nothing makes a client connect
\* or send
FairSpecServer ==
    /\ SpecServer
    /\ WF_vars(tcpListenerThread)
    /\ WF_vars(udpListenerThread)
    /\ WF_vars(udpListenerReceived({"timeout"}))
    /\ WF_vars(udpAnnouncementThread)
    /\ WF_vars(udpAnnouncementSlept)
    /\ WF_vars(\E c \in Conns : connectionHandlerThread(c))
    /\ WF_vars(stopJoined)
    /\ WF_vars(closeUdpSocket)

\* ------------------------------------------------------------------- claims

\* the server model callbacks of the last event that are named fn
CallsOf(fn) == SelectSeq(calls, LAMBDA x : x.fn = fn)

IsAck(m) == m.type \in {"DiagnosticPositiveAck", "DiagnosticNegativeAck"}

\* the only timer armed in the timer manager of connection c is the timer id,
\* armed by c with its full duration
ArmedAfresh(c, id) == timers[tmOf[c]] = {[id |-> id, owner |-> c, left |-> TimerTicks]}

\* the last event is a message of payload type t handled in state st
MessageIn(st, t) == ev.kind = "message" /\ ev.st = st /\ ev.msg.type = t

\* C1: a RoutingActivationRequest that carries a source address, handled in
\* WaitRoutingActivation, sends exactly one RoutingActivationResponse with code
\* RouteActivated, records the source address as the client address and leaves
\* the connection in RoutingActivated.
C1_RoutingActivation ==
    (MessageIn("WaitRoutingActivation", "RoutingActivationRequest") /\ Len(ev.msg.sa) = 1)
    => /\ out = <<makeRoutingActivationResponse(ev.msg.sa[1], ServerAddress, "RouteActivated")>>
       /\ m_logicalAddress[ev.c] = ev.msg.sa[1]
       /\ m_state[ev.c] = "RoutingActivated"

C1_Witness ==
    /\ MessageIn("WaitRoutingActivation", "RoutingActivationRequest")
    /\ Len(ev.msg.sa) = 1
    /\ m_state[ev.c] = "RoutingActivated"
    /\ Len(out) = 1

\* the last event is a DiagnosticMessage with a source address, handled in
\* RoutingActivated
DiagnosticIn == MessageIn("RoutingActivated", "DiagnosticMessage") /\ Len(ev.msg.sa) = 1

\* C2: a DiagnosticMessage whose source address differs from the recorded
\* client address, handled in RoutingActivated, is answered with one
\* DiagnosticNegativeAck(InvalidSourceAddress), leaves the state RoutingActivated
\* and does not invoke onDownstreamRequest.
C2_InvalidSource ==
    (DiagnosticIn /\ ev.msg.sa[1] # ev.addr)
    => /\ out = <<makeDiagnosticNegativeResponse(ev.msg.sa[1], ServerAddress,
                                                 "InvalidSourceAddress", <<>>)>>
       /\ m_state[ev.c] = "RoutingActivated"
       /\ CallsOf("onDownstreamRequest") = <<>>
       /\ CallsOf("onDiagnosticMessage") = <<>>

C2_Witness ==
    /\ DiagnosticIn
    /\ ev.msg.sa[1] # ev.addr
    /\ hasDownstream[ev.c]
    /\ Len(out) = 1

\* the last event is a DiagnosticMessage from the recorded client address,
\* handled in RoutingActivated
DiagnosticFromClient == DiagnosticIn /\ ev.msg.sa[1] = ev.addr

\* what onDiagnosticMessage returned during the last event
ReturnedAck == CallsOf("onDiagnosticMessage")[1].ack

\* the acknowledgement that answers the result ack of onDiagnosticMessage
AckFor(ack) ==
    IF Len(ack) = 1
    THEN makeDiagnosticNegativeResponse(ev.addr, ServerAddress, ack[1], <<>>)
    ELSE makeDiagnosticPositiveResponse(ev.addr, ServerAddress, <<>>)

\* C3 as stated: a DiagnosticMessage from the recorded client address produces
\* exactly one acknowledgement, the DiagnosticNegativeAck with the code returned
\* by onDiagnosticMessage or else a DiagnosticPositiveAck; after a negative ack
\* the downstream handler is not invoked and the state stays RoutingActivated.
C3_ExactlyOneAck ==
    DiagnosticFromClient
    => /\ Len(CallsOf("onDiagnosticMessage")) = 1
       /\ SelectSeq(out, IsAck) = <<AckFor(ReturnedAck)>>
       /\ Len(ReturnedAck) = 1
            => /\ CallsOf("onDownstreamRequest") = <<>>
               /\ m_state[ev.c] = "RoutingActivated"

\* C3 amended: the first message sent is the acknowledgement that answers
\* onDiagnosticMessage; a negative one is the only message sent, the downstream
\* handler is not invoked and the state stays RoutingActivated; after a positive
\* one the only further acknowledgement is one
\* DiagnosticNegativeAck(TargetUnreachable), sent after onDownstreamRequest was
\* invoked.
C3_AckThenDownstream ==
    DiagnosticFromClient
    => /\ Len(CallsOf("onDiagnosticMessage")) = 1
       /\ Len(out) >= 1
       /\ out[1] = AckFor(ReturnedAck)
       /\ Len(ReturnedAck) = 1
            => /\ out = <<AckFor(ReturnedAck)>>
               /\ CallsOf("onDownstreamRequest") = <<>>
               /\ m_state[ev.c] = "RoutingActivated"
       /\ Len(ReturnedAck) = 0
            => /\ Len(SelectSeq(out, IsAck)) <= 2
               /\ \A i \in 2..Len(out) :
                     IsAck(out[i])
                     => /\ out[i].type = "DiagnosticNegativeAck"
                        /\ out[i].code = "TargetUnreachable"
                        /\ Len(CallsOf("onDownstreamRequest")) = 1

\* a negative and a doubly acknowledged message have both been handled
C3_Witness ==
    /\ DiagnosticFromClient
    /\ Len(ReturnedAck) = 0
    /\ Len(SelectSeq(out, IsAck)) = 2
    /\ m_state[ev.c] = "RoutingActivated"

\* the last event is a positively acknowledged DiagnosticMessage of the client
\* that was passed to onDownstreamRequest, which returned res without invoking
\* the response sink
Forwarded(res) ==
    /\ DiagnosticFromClient
    /\ Len(ReturnedAck) = 0
    /\ Len(CallsOf("onDownstreamRequest")) = 1
    /\ CallsOf("onDownstreamRequest")[1].res = res

PositiveAck == makeDiagnosticPositiveResponse(ev.addr, ServerAddress, <<>>)

\* C4: after a positive acknowledgement the result of onDownstreamRequest
\* decides the next state: Pending leads to WaitDownstreamResponse with the
\* DownstreamResponse timer armed, Handled leaves RoutingActivated with no
\* further message, Error sends DiagnosticNegativeAck(TargetUnreachable) and
\* leaves RoutingActivated.
C4_DownstreamResult ==
    /\ Forwarded("Pending")
         => /\ m_state[ev.c] = "WaitDownstreamResponse"
            /\ \E t \in timers[tmOf[ev.c]] : t.id = "DownstreamResponse" /\ t.owner = ev.c
    /\ Forwarded("Handled")
         => /\ m_state[ev.c] = "RoutingActivated"
            /\ out = <<PositiveAck>>
    /\ Forwarded("Error")
         => /\ m_state[ev.c] = "RoutingActivated"
            /\ out = <<PositiveAck,
                       makeDiagnosticNegativeResponse(ev.addr, ServerAddress,
                                                      "TargetUnreachable", <<>>)>>

\* C5: a response of the provider that arrives in WaitDownstreamResponse is
\* passed on as a DiagnosticMessage from the server address to the recorded
\* client address if the result is Handled, and answered with
\* DiagnosticNegativeAck(TargetUnreachable) otherwise; the connection is back in
\* RoutingActivated with the GeneralInactivity timer armed afresh.
C5_DownstreamResponse ==
    (ev.kind = "downstream" /\ ev.st = "WaitDownstreamResponse")
    => /\ out = <<IF ev.arg = "Handled"
                  THEN makeDiagnosticMessage(ServerAddress, ev.addr, ev.payload)
                  ELSE makeDiagnosticNegativeResponse(ServerAddress, ev.addr,
                                                      "TargetUnreachable", <<>>)>>
       /\ m_state[ev.c] = "RoutingActivated"
       /\ ArmedAfresh(ev.c, "GeneralInactivity")

C5_Witness ==
    /\ ev.kind = "downstream"
    /\ ev.st = "WaitDownstreamResponse"
    /\ ev.arg = "Handled"
    /\ ev.addr \in ClientAddrs
    /\ m_state[ev.c] = "RoutingActivated"

\* C6: the expiry of the timer of WaitDownstreamResponse, the response sink
\* never having been invoked, sends DiagnosticNegativeAck(TargetUnreachable) and
\* returns the connection to RoutingActivated.
C6_DownstreamTimeout ==
    (ev.kind = "timeout" /\ ev.st = "WaitDownstreamResponse" /\ ev.sink)
    => /\ Len(out) = 1
       /\ out[1].type = "DiagnosticNegativeAck"
       /\ out[1].code = "TargetUnreachable"
       /\ m_state[ev.c] = "RoutingActivated"

\* C7: the expiry of the GeneralInactivity timer in RoutingActivated sends one
\* AliveCheckRequest and leads to WaitAliveCheckResponse with the AliveCheck
\* timer armed; an AliveCheckResponse or DiagnosticMessage received there
\* returns the connection to RoutingActivated.
C7_AliveCheck ==
    /\ (ev.kind = "timeout" /\ ev.arg = "GeneralInactivity" /\ ev.st = "RoutingActivated")
         => /\ out = <<makeAliveCheckRequest>>
            /\ m_state[ev.c] = "WaitAliveCheckResponse"
            /\ ArmedAfresh(ev.c, "AliveCheck")
    /\ (ev.kind = "message" /\ ev.st = "WaitAliveCheckResponse"
          /\ ev.msg.type \in {"AliveCheckResponse", "DiagnosticMessage"})
         => m_state[ev.c] = "RoutingActivated"

C7_Witness ==
    /\ MessageIn("WaitAliveCheckResponse", "AliveCheckResponse")
    /\ m_state[ev.c] = "RoutingActivated"

\* C8: every expiry of the AliveCheck timer in WaitAliveCheckResponse either
\* starts another attempt (the AliveCheck timer is armed again and the retry
\* counter incremented) or, the retry counter having reached the configured
\* count, closes the connection with reason AliveCheckTimeout.
C8_AliveCheckRetry ==
    (ev.kind = "timeout" /\ ev.arg = "AliveCheck" /\ ev.st = "WaitAliveCheckResponse")
    => \/ /\ ev.retry < AliveCheckRetryCount
          /\ m_state[ev.c] = "WaitAliveCheckResponse"
          /\ ArmedAfresh(ev.c, "AliveCheck")
          /\ m_aliveCheckRetry[ev.c] = ev.retry + 1
       \/ /\ ev.retry >= AliveCheckRetryCount
          /\ m_state[ev.c] = "Closed"
          /\ notified[ev.c] = <<"AliveCheckTimeout">>

\* C9: a connection is constructed in WaitRoutingActivation with the
\* InitialInactivity timer armed; when that timer expires before a
\* RoutingActivationRequest was handled the connection is Closed, its transport
\* is closed and onCloseConnection is invoked with InitialInactivityTimeout.
C9_InitialInactivity ==
    /\ ev.kind = "construct"
         => /\ m_state[ev.c] = "WaitRoutingActivation"
            /\ ArmedAfresh(ev.c, "InitialInactivity")
    /\ (ev.kind = "timeout" /\ ev.arg = "InitialInactivity")
         => /\ ev.st = "WaitRoutingActivation"
            /\ m_state[ev.c] = "Closed"
            /\ ~tpActive[ev.c]
            /\ tpCloses[ev.c] = 1
            /\ timers[tmOf[ev.c]] = {}
            /\ notified[ev.c] = <<"InitialInactivityTimeout">>
            /\ Len(CallsOf("onCloseConnection")) = 1

C9_Witness ==
    /\ ev.kind = "timeout"
    /\ ev.arg = "InitialInactivity"
    /\ m_state[ev.c] = "Closed"

\* C10: closeConnection is idempotent: the first call leaves the connection
\* Closed with onCloseConnection invoked once, with the reason of that call,
\* and every further call on the closed connection leaves it Closed and
\* invokes nothing; onCloseConnection is never invoked twice.
C10_CloseIdempotent ==
    /\ \A c \in conns :
          /\ Len(notified[c]) <= 1
          /\ m_isClosing[c] <=> Len(notified[c]) = 1
    /\ (ev.kind = "close" /\ ~ev.closing)
         => /\ m_state[ev.c] = "Closed"
            /\ notified[ev.c] = <<ev.arg>>
    /\ (ev.kind = "close" /\ ev.closing /\ ev.st = "Closed")
         => /\ m_state[ev.c] = "Closed"
            /\ calls = <<>>
            /\ out = <<>>

\* a second closeConnection call, with another reason than the first
C10_Witness ==
    /\ ev.kind = "close"
    /\ ev.closing
    /\ ev.st = "Closed"
    /\ notified[ev.c] # <<ev.arg>>
    /\ Len(notified[ev.c]) = 1

\* the calls of the last event that are an onCloseConnection notification
IsNotification(x) == x.fn = "onCloseConnection"

\* the last event called closeConnection from inside the onCloseConnection handler
Reentered == \E i \in 1..Len(calls) : calls[i].fn = "closeConnection"

\* C11 as stated: when onCloseConnection is invoked the state is Closed, no
\* timer is armed and the transport is closed, and the notification is the last
\* step of closeConnection: the connection is left as the notification found it.
C11_NotifiedLast ==
    \A i \in 1..Len(calls) :
        IsNotification(calls[i])
        => /\ calls[i].st = "Closed"
           /\ calls[i].timers = {}
           /\ ~calls[i].tpActive
           /\ m_isOpen[ev.c] = calls[i].isOpen
           /\ rawCloses[ev.c] = calls[i].rawCloses

\* C11 amended: when onCloseConnection is invoked the state is Closed, no timer
\* is armed and the transport is closed, while the connection still counts as
\* open; the notification is the last server model callback of the close, which
\* afterwards only clears m_isOpen and closes the descriptor of DoIPConnection.
C11_NotifiedAfterClose ==
    \A i \in 1..Len(calls) :
        IsNotification(calls[i])
        => /\ calls[i].st = "Closed"
           /\ calls[i].timers = {}
           /\ ~calls[i].tpActive
           /\ calls[i].isOpen
           /\ calls[i].rawCloses = 0
           /\ \A j \in (i + 1)..Len(calls) : calls[j].fn = "closeConnection"
           /\ m_state[ev.c] = "Closed"
           /\ timers[tmOf[ev.c]] = {}
           /\ ~tpActive[ev.c]
           /\ ~m_isOpen[ev.c]
           /\ rawCloses[ev.c] = 1

\* a close that found a timer armed has notified the server model
C11_Witness ==
    /\ ev.timers # {}
    /\ Len(CallsOf("onCloseConnection")) = 1
    /\ CallsOf("onCloseConnection")[1].isOpen
    /\ ~m_isOpen[ev.c]

\* C12: a closeConnection call made from inside the onCloseConnection handler
\* returns at once: the server model is not notified a second time, the
\* transport and the descriptor are not closed a second time, nothing is
\* invoked after the call, and the outer close runs to its end.
C12_ReentrantClose ==
    Reentered
    => /\ Len(CallsOf("onCloseConnection")) = 1
       /\ Len(notified[ev.c]) = 1
       /\ calls[Len(calls)].fn = "closeConnection"
       /\ tpCloses[ev.c] = 1
       /\ rawCloses[ev.c] = 1
       /\ m_state[ev.c] = "Closed"
       /\ ~m_isOpen[ev.c]

\* the handler of a close that a state handler started has closed again
C12_Witness ==
    /\ Reentered
    /\ ev.kind = "message"
    /\ notified[ev.c] = <<"InvalidMessage">>
    /\ ~m_isOpen[ev.c]

\* C13: Closed is terminal: a message passed to handleMessage2, a timer expiry
\* or a closeConnection call that finds the connection Closed leaves it Closed,
\* sends nothing, arms no timer and raises no error.
C13_ClosedTerminal ==
    (ev.kind \in {"message", "timeout", "close"} /\ ev.st = "Closed")
    => /\ m_state[ev.c] = "Closed"
       /\ out = <<>>
       /\ timers[tmOf[ev.c]] = ev.timers
       /\ ~raised[ev.c]

\* C14: a response of the provider that finds the connection Closed is
\* dropped: nothing is sent, the state stays Closed and no timer is armed.
C14_ResponseAfterClose ==
    (ev.kind = "downstream" /\ ev.st = "Closed")
    => /\ out = <<>>
       /\ m_state[ev.c] = "Closed"
       /\ timers[tmOf[ev.c]] = ev.timers

\* C15: a message handled in RoutingActivated whose payload type is neither
\* DiagnosticMessage nor AliveCheckResponse is answered with one
\* DiagnosticNegativeAck(TransportProtocolError); the state stays
\* RoutingActivated, the connection is not closed and its timer is untouched.
C15_UnsupportedPayload ==
    (ev.kind = "message" /\ ev.st = "RoutingActivated"
       /\ ev.msg.type \notin {"DiagnosticMessage", "AliveCheckResponse"})
    => /\ out = <<makeDiagnosticNegativeResponse(ZERO_ADDRESS, ServerAddress,
                                                 "TransportProtocolError", <<>>)>>
       /\ m_state[ev.c] = "RoutingActivated"
       /\ CallsOf("onCloseConnection") = <<>>
       /\ m_isClosing[ev.c] = ev.closing
       /\ ~ev.closing => (m_isOpen[ev.c] /\ tpActive[ev.c])
       /\ timers[tmOf[ev.c]] = ev.timers

C15_Witness ==
    /\ MessageIn("RoutingActivated", "VehicleIdentificationRequest")
    /\ Len(out) = 1
    /\ m_isOpen[ev.c]
    /\ ev.addr \in ClientAddrs

\* C16: a message handled in WaitRoutingActivation that is not a
\* RoutingActivationRequest or carries no source address closes the connection
\* with reason InvalidMessage; no message is sent and no client address is
\* recorded.
C16_InvalidRoutingActivation ==
    (ev.kind = "message" /\ ev.st = "WaitRoutingActivation"
       /\ (ev.msg.type # "RoutingActivationRequest" \/ Len(ev.msg.sa) = 0))
    => /\ m_state[ev.c] = "Closed"
       /\ m_closeReason[ev.c] = "InvalidMessage"
       /\ notified[ev.c] = <<"InvalidMessage">>
       /\ ~tpActive[ev.c]
       /\ out = <<>>
       /\ m_logicalAddress[ev.c] = ZERO_ADDRESS

\* a DiagnosticMessage that carries a source address closed the connection
C16_Witness ==
    /\ MessageIn("WaitRoutingActivation", "DiagnosticMessage")
    /\ Len(ev.msg.sa) = 1
    /\ m_state[ev.c] = "Closed"

\* C17: a message handled in WaitDownstreamResponse is not processed: nothing
\* is sent, no server model callback is invoked, the armed timer is untouched
\* and the state is unchanged.
C17_NoClientMessage ==
    (ev.kind = "message" /\ ev.st = "WaitDownstreamResponse")
    => /\ out = <<>>
       /\ calls = <<>>
       /\ timers[tmOf[ev.c]] = ev.timers
       /\ m_state[ev.c] = "WaitDownstreamResponse"
       /\ sink[ev.c] = ev.sink
       /\ m_logicalAddress[ev.c] = ev.addr

C17_Witness ==
    /\ MessageIn("WaitDownstreamResponse", "DiagnosticMessage")
    /\ ev.timers # {}
    /\ ev.sink
    /\ m_state[ev.c] = "WaitDownstreamResponse"

\* C18: the events of one connection are handled one at a time: while a
\* message is being handled no response of the provider is handled.
C18_OneEventAtATime ==
    ev.kind = "message" => CallsOf("receiveDownstreamResponse") = <<>>

\* the last event was handled by a connection
ConnectionEvent == ev.kind \in {"construct", "message", "timeout", "downstream", "close"}

\* C19: an event of one connection neither cancels nor re-arms a timer that
\* another connection armed in the shared timer manager, so that a silent
\* connection keeps the InitialInactivity timer that will close it.
C19_TimersOfOthers ==
    ConnectionEvent
    => \A t \in ev.timers : t.owner # ev.c => t \in timers[tmOf[ev.c]]

\* C20: once stop has returned no handler thread of a connection is running
\* or can run again, and the listening socket and the UDP socket are closed.
C20_StoppedServer ==
    stopAt = "returned"
    => /\ \A c \in Conns : handler[c] \in {"none", "done"}
       /\ ~m_tcpSock
       /\ ~m_udpLock

\* the loop of server thread t has been started and has not exited
Looping(t) == thread[t] \notin {"none", "done"}

\* C21: when stop closes the sockets the accept loop, the UDP listener and the
\* announcement loop have exited, and no loop is in accept, recvfrom or sendto
\* on a socket that stop has closed.
C21_LoopsExitBeforeClose ==
    /\ stopAt \in {"close", "returned"}
         => \A t \in ServerThreads : ~Looping(t)
    /\ Looping("tcpListener") => m_tcpSock
    /\ Looping("udpListener") => m_udpLock
    /\ Looping("announce") => m_udpLock

\* stop has returned on a server whose three loops had been started
C21_Witness ==
    /\ stopAt = "returned"
    /\ \A t \in ServerThreads : thread[t] = "done"
    /\ ~m_tcpSock
    /\ ~m_udpLock

\* C22: stop terminates: once the flags are cleared stop returns, whether or
\* not a client connects or a datagram arrives.
C22_StopReturns == (stopAt = "join") ~> (stopAt = "returned")

\* C23: no more than announceCount announcements are sent; the loop of a
\* server that was not stopped ends after exactly announceCount; an iteration
\* that finds the stop flag cleared sends none.
C23_Announcements ==
    /\ [](announced <= AnnounceCount)
    /\ []((thread["announce"] = "done" /\ stopAt = "idle") => announced = AnnounceCount)
    /\ [][(thread["announce"] = "loop" /\ ~m_udpRunning) => announced' = announced]_vars

C23_Witness ==
    /\ thread["announce"] = "done"
    /\ stopAt = "idle"
    /\ announced = AnnounceCount

\* the close reason that matches what ended a receive
ReasonOf(cause) == IF cause = "InvalidHeader" THEN "InvalidMessage" ELSE "SocketError"

\* C24: a receive that fails closes the connection with the reason that
\* matches the cause, and onCloseConnection is invoked with that reason.
C24_ReceiveFailure ==
    (ev.kind = "receive" /\ ~ev.closing)
    => /\ m_closeReason[ev.c] = ReasonOf(ev.arg)
       /\ notified[ev.c] = <<ReasonOf(ev.arg)>>

\* C25: a header that declares a payload longer than the receive buffer is
\* answered with a negative acknowledgement and none of its payload is copied
\* to the buffer; a payload that fits is accepted.
C25_PayloadBound ==
    (ev.kind \in {"message", "receive"} /\ received.c = ev.c)
    => /\ received.len > ReceiveBufSize
            => /\ received.copied = 0
               /\ Len(out) = 1
               /\ out[1].type = "DiagnosticNegativeAck"
       /\ (received.len <= ReceiveBufSize /\ ev.kind = "message") => received.ret = 1

\* C26: a receiveMessage blocked on a mock transport in blocking mode returns
\* once close() has been called on the transport; it does not stay blocked
C26_BlockedReceiveReturns ==
    (receiver = "waitAndPop" /\ ~m_isActive) ~> (receiver = "idle")

\* C27: on an active mock transport the sent queue and the receive queue are
\* independent FIFOs: the messages sent are the messages popped followed by
\* the messages queued, and so for the messages injected and received;
\* sentMessageCount is sends minus pops, sendMessage returns the size of the
\* message, and a pop or a receive returns none only from an empty queue
C27_IndependentFifos ==
    m_isActive =>
        /\ mockLog.sent = mockLog.popped \o m_sentQueue.m_queue
        /\ mockLog.injected = mockLog.received \o m_receiveQueue.m_queue
        /\ Mock_sentMessageCount = Len(mockLog.sent) - Len(mockLog.popped)
        /\ mockCall.op = "sendMessage" => mockCall.ret = Len(mockCall.arg)
        /\ (mockCall.op = "popSentMessage" /\ mockCall.ret = 0) =>
               m_sentQueue.m_queue = <<>>
        /\ (mockCall.op = "receiveMessage" /\ mockCall.ret = 0) =>
               m_receiveQueue.m_queue = <<>>

\* two different messages were sent and the first was popped, while a message
\* injected was received
C27_Witness ==
    /\ m_isActive
    /\ Len(mockLog.sent) = 2
    /\ mockLog.sent[1] # mockLog.sent[2]
    /\ mockLog.popped = <<mockLog.sent[1]>>
    /\ Len(mockLog.received) = 1
    /\ mockCall.op = "popSentMessage"

\* C28: after close() the mock transport is inactive, a sendMessage returns -1
\* and adds nothing to the sent queue, and a receiveMessage returns no
\* message, whatever was injected before or after the close
C28_AfterClose ==
    ~m_isActive =>
        /\ m_sentQueue.m_queue = <<>>
        /\ mockCall.op = "sendMessage" => mockCall.ret = -1
        /\ mockCall.op = "receiveMessage" =>
               mockCall.ret = 0 /\ mockCall.msg = NoMessage

ClientMessageIn ==
    MessageIn("RoutingActivated", "AliveCheckResponse") \/ DiagnosticFromClient

\* an AliveCheckRequest was sent while the last event was handled
AliveCheckRequested == \E i \in 1..Len(out) : out[i] = makeAliveCheckRequest

C31_RetryCounter ==
    /\ \A c \in conns :
          /\ m_aliveCheckRetry[c] \in 0..AliveCheckRetryCount
          /\ m_state[c] = "RoutingActivated" => m_aliveCheckRetry[c] = 0
    /\ (ev.kind = "timeout" /\ ev.arg = "GeneralInactivity" /\ ev.st = "RoutingActivated")
         => m_aliveCheckRetry[ev.c] = ev.retry + 1
    /\ (ev.kind = "timeout" /\ ev.arg = "AliveCheck" /\ ev.st = "WaitAliveCheckResponse"
          /\ ev.retry < AliveCheckRetryCount)
         => m_aliveCheckRetry[ev.c] = ev.retry + 1

\* C32: a connection with a timer manager of its own has at most one timer
\* armed, the timer of its current state; a state change cancels the timer of
\* the state that is left, so a timer only ever expires in the state it
\* belongs to
C32_OneStateTimer ==
    /\ \A c \in conns :
          /\ Cardinality(timers[tmOf[c]]) <= 1
          /\ \A t \in timers[tmOf[c]] : t.owner = c /\ t.id = DescTimer(m_state[c])
    /\ ev.kind = "timeout" => ev.arg = DescTimer(ev.st)

\* a message that found the timer of its state armed has changed the state, and
\* the one timer armed now is the timer of the new state
C32_Witness ==
    /\ ev.kind = "message"
    /\ \E t \in ev.timers : t.id = DescTimer(ev.st)
    /\ m_state[ev.c] # ev.st
    /\ DescTimer(m_state[ev.c]) # DescTimer(ev.st)
    /\ Cardinality(timers[tmOf[ev.c]]) = 1
    /\ \A t \in timers[tmOf[ev.c]] : t.id = DescTimer(m_state[ev.c])

\* C33: a TcpConnectionTransport closes the descriptor it owns exactly once:
\* never twice, and once it is destroyed the descriptor has been closed, also
\* after a send or a receive that failed
C33_DescriptorClosedOnce ==
    /\ tcpTransport.closes <= 1
    /\ tcpTransport.destroyed => tcpTransport.closes = 1

\* C34: a DoIPConnection closes its socket through its transport only: the
\* descriptor is closed at most once and closeConnection never closes the raw
\* descriptor
C34_ClosedThroughTransport ==
    \A c \in conns :
        /\ rawCloses[c] = 0
        /\ tpCloses[c] + rawCloses[c] <= 1

\* C35: every datagram the UDP listener receives is answered with exactly one
\* response: IncorrectPatternFormat when its header does not parse,
\* VehicleIdentificationResponse for a VehicleIdentificationRequest,
\* UnknownPayloadType for any other payload type
C35_OneUdpResponse ==
    (datagram.kind \notin {"timeout", "error"} /\ ~datagram.failed)
    => datagram.sent = <<IF datagram.kind = "InvalidHeader"
                         THEN "IncorrectPatternFormat"
                         ELSE udpResponse(datagram.kind)>>

\* C36: the recorded client address is set once, by the RoutingActivationRequest
\* handled in WaitRoutingActivation, and never changes afterwards; a
\* RoutingActivationRequest handled in RoutingActivated is answered with
\* DiagnosticNegativeAck(TransportProtocolError) and leaves the address as it is
C36_ClientAddressSetOnce ==
    /\ ConnectionEvent
         => /\ ev.addr # ZERO_ADDRESS => m_logicalAddress[ev.c] = ev.addr
            /\ m_logicalAddress[ev.c] # ev.addr
                 => /\ MessageIn("WaitRoutingActivation", "RoutingActivationRequest")
                    /\ m_logicalAddress[ev.c] = ev.msg.sa[1]
    /\ MessageIn("RoutingActivated", "RoutingActivationRequest")
         => /\ out = <<makeDiagnosticNegativeResponse(ZERO_ADDRESS, ServerAddress,
                                                      "TransportProtocolError", <<>>)>>
            /\ m_logicalAddress[ev.c] = ev.addr
            /\ m_state[ev.c] = "RoutingActivated"

\* a routing activation request from another address found the routing active
C36_Witness ==
    /\ MessageIn("RoutingActivated", "RoutingActivationRequest")
    /\ Len(ev.msg.sa) = 1
    /\ ev.addr \in ClientAddrs
    /\ ev.msg.sa[1] # ev.addr
    /\ m_logicalAddress[ev.c] = ev.addr

\* C37: a DiagnosticMessage handled in WaitAliveCheckResponse only returns the
\* connection to RoutingActivated: nothing is sent, no server model callback is
\* invoked, whatever its source address
C37_DiagnosticEndsAliveCheck ==
    MessageIn("WaitAliveCheckResponse", "DiagnosticMessage")
    => /\ out = <<>>
       /\ calls = <<>>
       /\ m_state[ev.c] = "RoutingActivated"
       /\ m_logicalAddress[ev.c] = ev.addr
       /\ m_isClosing[ev.c] = ev.closing

\* a diagnostic message from another address ended the alive check
C37_Witness ==
    /\ MessageIn("WaitAliveCheckResponse", "DiagnosticMessage")
    /\ ev.msg.sa # <<ev.addr>>
    /\ m_state[ev.c] = "RoutingActivated"
    /\ out = <<>>


\* C38: the handler thread of an accepted connection ends only when the
\* connection is no longer active or the server is being stopped, whether or
\* not setupUdpSocket was called
C38_HandlerServesConnection ==
    \A c \in conns :
        handler[c] = "done" => \/ ~isSocketActive(c)
                               \/ raised[c]
                               \/ stopAt # "idle"


\* the provider invoked the response sink of connection c while the message
\* of the last event was being handled
SyncDelivered(c) ==
    /\ ev.kind = "message"
    /\ ev.c = c
    /\ CallsOf("receiveDownstreamResponse") # <<>>

\* C39: a connection whose provider invoked the response sink before
\* onDownstreamRequest returned Pending is in RoutingActivated after the
\* request, or returns to it (unless it is closed first)
C39_SyncResponseNotAwaited ==
    \A c \in Conns :
        SyncDelivered(c) ~> (m_state[c] = "RoutingActivated" \/ m_isClosing[c])


\* the items handed out, in the order they were handed out
Delivered == [i \in DOMAIN tsqLog.delivered |-> tsqLog.delivered[i].item]

\* each item the queue took is handed out at most once and in push order, a
\* push to a stopped queue adds nothing, and an item that is queued is handed
\* to a pop or waitAndPop even after stop()
QueueDelivery ==
    /\ Delivered \o tsq.m_queue = tsqLog.accepted
    /\ \A i, j \in DOMAIN tsqLog.accepted :
           i < j => tsqLog.accepted[i] < tsqLog.accepted[j]
    /\ (tsqLog.call.op = "push" /\ tsqLog.call.stopped) => ~tsqLog.call.grew
    /\ (tsqLog.call.op \in {"pop", "waitAndPop"} /\ ~tsqLog.call.empty) => tsqLog.call.ok

\* C40 as stated: under any interleaving of push, pop, waitAndPop, tryPop and
\* stop, pop and waitAndPop return false only when the queue is stopped and empty
C40_FalseOnlyWhenStopped ==
    /\ QueueDelivery
    /\ (tsqLog.call.op \in {"pop", "waitAndPop"} /\ ~tsqLog.call.ok)
           => (tsqLog.call.stopped /\ tsqLog.call.empty)

\* C40: under any interleaving of push, pop, waitAndPop, tryPop and stop,
\* each item is handed to at most one consumer and in push order, a push after
\* stop() adds nothing, waitAndPop returns false only when the queue is
\* stopped and empty, pop returns false only when the queue is empty (stopped,
\* or at its timeout), and every blocked waitAndPop returns after stop()
C40_QueueDelivery ==
    /\ [](/\ QueueDelivery
          /\ (tsqLog.call.op = "waitAndPop" /\ ~tsqLog.call.ok)
                 => (tsqLog.call.stopped /\ tsqLog.call.empty)
          /\ (tsqLog.call.op = "pop" /\ ~tsqLog.call.ok) => tsqLog.call.empty)
    /\ \A k \in Consumers :
           (tsq.m_stopped /\ consumer[k] = "waitAndPop") ~> (consumer[k] = "idle")

\* two threads have each taken an item, the second by a waitAndPop from the
\* stopped queue, which had refused a push
C40_Witness ==
    /\ tsq.m_stopped
    /\ Len(tsqLog.delivered) = 2
    /\ tsqLog.delivered[1].k # tsqLog.delivered[2].k
    /\ tsqLog.call.op = "waitAndPop"
    /\ tsqLog.call.ok
    /\ tsqLog.call.stopped
    /\ tsqLog.pushed > Len(tsqLog.accepted)

====
